---- MODULE Spec2Model ----
(***************************************************************************)
(* A model of brpc's HPACK codec (RFC 7541): src/brpc/details/hpack.h and  *)
(* src/brpc/details/hpack.cpp.                                             *)
(*                                                                         *)
(* Octet strings (std::string) are sequences of numbers in 0..255.  A      *)
(* Header is a record [name, value].  A base::BoundedQueue<Header> is a    *)
(* sequence whose first element is top() (the oldest entry) and whose last *)
(* element is bottom() (the newest entry), together with its capacity.  A  *)
(* base::FlatMap is a function on the finite set of its keys.              *)
(*                                                                         *)
(* A call of the code is an operator from the state it reads to a record   *)
(* of what it returns and what it leaves.  Where a function computes a     *)
(* value and then goes on with it, the rest of the function is an operator *)
(* of its own that takes the value as a parameter.  A call that does not   *)
(* return (a failed CHECK, a failed DCHECK, a null dereference) leaves     *)
(* crash # "none".                                                         *)
(***************************************************************************)
EXTENDS Integers, Sequences, FiniteSets, TLC

H(n, v) == [name |-> n, value |-> v]

\* ---------------------------------------------------------------------
\* brpc/details/hpack-static-table.h (RFC 7541 Appendix A and Appendix B)
\* ---------------------------------------------------------------------

\* s_static_headers[i]: the i-th entry of Appendix A.
s_static_headers ==
  <<
    H(<<58, 97, 117, 116, 104, 111, 114, 105, 116, 121>>, <<>>),  \* 1  :authority: 
    H(<<58, 109, 101, 116, 104, 111, 100>>, <<71, 69, 84>>),  \* 2  :method: GET
    H(<<58, 109, 101, 116, 104, 111, 100>>, <<80, 79, 83, 84>>),  \* 3  :method: POST
    H(<<58, 112, 97, 116, 104>>, <<47>>),  \* 4  :path: /
    H(<<58, 112, 97, 116, 104>>, <<47, 105, 110, 100, 101, 120, 46, 104, 116, 109, 108>>),  \* 5  :path: /index.html
    H(<<58, 115, 99, 104, 101, 109, 101>>, <<104, 116, 116, 112>>),  \* 6  :scheme: http
    H(<<58, 115, 99, 104, 101, 109, 101>>, <<104, 116, 116, 112, 115>>),  \* 7  :scheme: https
    H(<<58, 115, 116, 97, 116, 117, 115>>, <<50, 48, 48>>),  \* 8  :status: 200
    H(<<58, 115, 116, 97, 116, 117, 115>>, <<50, 48, 52>>),  \* 9  :status: 204
    H(<<58, 115, 116, 97, 116, 117, 115>>, <<50, 48, 54>>),  \* 10  :status: 206
    H(<<58, 115, 116, 97, 116, 117, 115>>, <<51, 48, 52>>),  \* 11  :status: 304
    H(<<58, 115, 116, 97, 116, 117, 115>>, <<52, 48, 48>>),  \* 12  :status: 400
    H(<<58, 115, 116, 97, 116, 117, 115>>, <<52, 48, 52>>),  \* 13  :status: 404
    H(<<58, 115, 116, 97, 116, 117, 115>>, <<53, 48, 48>>),  \* 14  :status: 500
    H(<<97, 99, 99, 101, 112, 116, 45, 99, 104, 97, 114, 115, 101, 116>>, <<>>),  \* 15  accept-charset: 
    H(<<97, 99, 99, 101, 112, 116, 45, 101, 110, 99, 111, 100, 105, 110, 103>>, <<103, 122, 105, 112, 44, 32, 100, 101, 102, 108, 97, 116, 101>>),  \* 16  accept-encoding: gzip, deflate
    H(<<97, 99, 99, 101, 112, 116, 45, 108, 97, 110, 103, 117, 97, 103, 101>>, <<>>),  \* 17  accept-language: 
    H(<<97, 99, 99, 101, 112, 116, 45, 114, 97, 110, 103, 101, 115>>, <<>>),  \* 18  accept-ranges: 
    H(<<97, 99, 99, 101, 112, 116>>, <<>>),  \* 19  accept: 
    H(<<97, 99, 99, 101, 115, 115, 45, 99, 111, 110, 116, 114, 111, 108, 45, 97, 108, 108, 111, 119, 45, 111, 114, 105, 103, 105, 110>>, <<>>),  \* 20  access-control-allow-origin: 
    H(<<97, 103, 101>>, <<>>),  \* 21  age: 
    H(<<97, 108, 108, 111, 119>>, <<>>),  \* 22  allow: 
    H(<<97, 117, 116, 104, 111, 114, 105, 122, 97, 116, 105, 111, 110>>, <<>>),  \* 23  authorization: 
    H(<<99, 97, 99, 104, 101, 45, 99, 111, 110, 116, 114, 111, 108>>, <<>>),  \* 24  cache-control: 
    H(<<99, 111, 110, 116, 101, 110, 116, 45, 100, 105, 115, 112, 111, 115, 105, 116, 105, 111, 110>>, <<>>),  \* 25  content-disposition: 
    H(<<99, 111, 110, 116, 101, 110, 116, 45, 101, 110, 99, 111, 100, 105, 110, 103>>, <<>>),  \* 26  content-encoding: 
    H(<<99, 111, 110, 116, 101, 110, 116, 45, 108, 97, 110, 103, 117, 97, 103, 101>>, <<>>),  \* 27  content-language: 
    H(<<99, 111, 110, 116, 101, 110, 116, 45, 108, 101, 110, 103, 116, 104>>, <<>>),  \* 28  content-length: 
    H(<<99, 111, 110, 116, 101, 110, 116, 45, 108, 111, 99, 97, 116, 105, 111, 110>>, <<>>),  \* 29  content-location: 
    H(<<99, 111, 110, 116, 101, 110, 116, 45, 114, 97, 110, 103, 101>>, <<>>),  \* 30  content-range: 
    H(<<99, 111, 110, 116, 101, 110, 116, 45, 116, 121, 112, 101>>, <<>>),  \* 31  content-type: 
    H(<<99, 111, 111, 107, 105, 101>>, <<>>),  \* 32  cookie: 
    H(<<100, 97, 116, 101>>, <<>>),  \* 33  date: 
    H(<<101, 116, 97, 103>>, <<>>),  \* 34  etag: 
    H(<<101, 120, 112, 101, 99, 116>>, <<>>),  \* 35  expect: 
    H(<<101, 120, 112, 105, 114, 101, 115>>, <<>>),  \* 36  expires: 
    H(<<102, 114, 111, 109>>, <<>>),  \* 37  from: 
    H(<<104, 111, 115, 116>>, <<>>),  \* 38  host: 
    H(<<105, 102, 45, 109, 97, 116, 99, 104>>, <<>>),  \* 39  if-match: 
    H(<<105, 102, 45, 109, 111, 100, 105, 102, 105, 101, 100, 45, 115, 105, 110, 99, 101>>, <<>>),  \* 40  if-modified-since: 
    H(<<105, 102, 45, 110, 111, 110, 101, 45, 109, 97, 116, 99, 104>>, <<>>),  \* 41  if-none-match: 
    H(<<105, 102, 45, 114, 97, 110, 103, 101>>, <<>>),  \* 42  if-range: 
    H(<<105, 102, 45, 117, 110, 109, 111, 100, 105, 102, 105, 101, 100, 45, 115, 105, 110, 99, 101>>, <<>>),  \* 43  if-unmodified-since: 
    H(<<108, 97, 115, 116, 45, 109, 111, 100, 105, 102, 105, 101, 100>>, <<>>),  \* 44  last-modified: 
    H(<<108, 105, 110, 107>>, <<>>),  \* 45  link: 
    H(<<108, 111, 99, 97, 116, 105, 111, 110>>, <<>>),  \* 46  location: 
    H(<<109, 97, 120, 45, 102, 111, 114, 119, 97, 114, 100, 115>>, <<>>),  \* 47  max-forwards: 
    H(<<112, 114, 111, 120, 121, 45, 97, 117, 116, 104, 101, 110, 116, 105, 99, 97, 116, 101>>, <<>>),  \* 48  proxy-authenticate: 
    H(<<112, 114, 111, 120, 121, 45, 97, 117, 116, 104, 111, 114, 105, 122, 97, 116, 105, 111, 110>>, <<>>),  \* 49  proxy-authorization: 
    H(<<114, 97, 110, 103, 101>>, <<>>),  \* 50  range: 
    H(<<114, 101, 102, 101, 114, 101, 114>>, <<>>),  \* 51  referer: 
    H(<<114, 101, 102, 114, 101, 115, 104>>, <<>>),  \* 52  refresh: 
    H(<<114, 101, 116, 114, 121, 45, 97, 102, 116, 101, 114>>, <<>>),  \* 53  retry-after: 
    H(<<115, 101, 114, 118, 101, 114>>, <<>>),  \* 54  server: 
    H(<<115, 101, 116, 45, 99, 111, 111, 107, 105, 101>>, <<>>),  \* 55  set-cookie: 
    H(<<115, 116, 114, 105, 99, 116, 45, 116, 114, 97, 110, 115, 112, 111, 114, 116, 45, 115, 101, 99, 117, 114, 105, 116, 121>>, <<>>),  \* 56  strict-transport-security: 
    H(<<116, 114, 97, 110, 115, 102, 101, 114, 45, 101, 110, 99, 111, 100, 105, 110, 103>>, <<>>),  \* 57  transfer-encoding: 
    H(<<117, 115, 101, 114, 45, 97, 103, 101, 110, 116>>, <<>>),  \* 58  user-agent: 
    H(<<118, 97, 114, 121>>, <<>>),  \* 59  vary: 
    H(<<118, 105, 97>>, <<>>),  \* 60  via: 
    H(<<119, 119, 119, 45, 97, 117, 116, 104, 101, 110, 116, 105, 99, 97, 116, 101>>, <<>>)  \* 61  www-authenticate: 
  >>
\* s_huffman_table[i + 1] = <<code, bit_len>> of symbol i; symbol 256 is EOS.
s_huffman_table ==
  <<
    <<8184, 13>>, <<8388568, 23>>, <<268435426, 28>>, <<268435427, 28>>, <<268435428, 28>>, <<268435429, 28>>,
    <<268435430, 28>>, <<268435431, 28>>, <<268435432, 28>>, <<16777194, 24>>, <<1073741820, 30>>, <<268435433, 28>>,
    <<268435434, 28>>, <<1073741821, 30>>, <<268435435, 28>>, <<268435436, 28>>, <<268435437, 28>>, <<268435438, 28>>,
    <<268435439, 28>>, <<268435440, 28>>, <<268435441, 28>>, <<268435442, 28>>, <<1073741822, 30>>, <<268435443, 28>>,
    <<268435444, 28>>, <<268435445, 28>>, <<268435446, 28>>, <<268435447, 28>>, <<268435448, 28>>, <<268435449, 28>>,
    <<268435450, 28>>, <<268435451, 28>>, <<20, 6>>, <<1016, 10>>, <<1017, 10>>, <<4090, 12>>,
    <<8185, 13>>, <<21, 6>>, <<248, 8>>, <<2042, 11>>, <<1018, 10>>, <<1019, 10>>,
    <<249, 8>>, <<2043, 11>>, <<250, 8>>, <<22, 6>>, <<23, 6>>, <<24, 6>>,
    <<0, 5>>, <<1, 5>>, <<2, 5>>, <<25, 6>>, <<26, 6>>, <<27, 6>>,
    <<28, 6>>, <<29, 6>>, <<30, 6>>, <<31, 6>>, <<92, 7>>, <<251, 8>>,
    <<32764, 15>>, <<32, 6>>, <<4091, 12>>, <<1020, 10>>, <<8186, 13>>, <<33, 6>>,
    <<93, 7>>, <<94, 7>>, <<95, 7>>, <<96, 7>>, <<97, 7>>, <<98, 7>>,
    <<99, 7>>, <<100, 7>>, <<101, 7>>, <<102, 7>>, <<103, 7>>, <<104, 7>>,
    <<105, 7>>, <<106, 7>>, <<107, 7>>, <<108, 7>>, <<109, 7>>, <<110, 7>>,
    <<111, 7>>, <<112, 7>>, <<113, 7>>, <<114, 7>>, <<252, 8>>, <<115, 7>>,
    <<253, 8>>, <<8187, 13>>, <<524272, 19>>, <<8188, 13>>, <<16380, 14>>, <<34, 6>>,
    <<32765, 15>>, <<3, 5>>, <<35, 6>>, <<4, 5>>, <<36, 6>>, <<5, 5>>,
    <<37, 6>>, <<38, 6>>, <<39, 6>>, <<6, 5>>, <<116, 7>>, <<117, 7>>,
    <<40, 6>>, <<41, 6>>, <<42, 6>>, <<7, 5>>, <<43, 6>>, <<118, 7>>,
    <<44, 6>>, <<8, 5>>, <<9, 5>>, <<45, 6>>, <<119, 7>>, <<120, 7>>,
    <<121, 7>>, <<122, 7>>, <<123, 7>>, <<32766, 15>>, <<2044, 11>>, <<16381, 14>>,
    <<8189, 13>>, <<268435452, 28>>, <<1048550, 20>>, <<4194258, 22>>, <<1048551, 20>>, <<1048552, 20>>,
    <<4194259, 22>>, <<4194260, 22>>, <<4194261, 22>>, <<8388569, 23>>, <<4194262, 22>>, <<8388570, 23>>,
    <<8388571, 23>>, <<8388572, 23>>, <<8388573, 23>>, <<8388574, 23>>, <<16777195, 24>>, <<8388575, 23>>,
    <<16777196, 24>>, <<16777197, 24>>, <<4194263, 22>>, <<8388576, 23>>, <<16777198, 24>>, <<8388577, 23>>,
    <<8388578, 23>>, <<8388579, 23>>, <<8388580, 23>>, <<2097116, 21>>, <<4194264, 22>>, <<8388581, 23>>,
    <<4194265, 22>>, <<8388582, 23>>, <<8388583, 23>>, <<16777199, 24>>, <<4194266, 22>>, <<2097117, 21>>,
    <<1048553, 20>>, <<4194267, 22>>, <<4194268, 22>>, <<8388584, 23>>, <<8388585, 23>>, <<2097118, 21>>,
    <<8388586, 23>>, <<4194269, 22>>, <<4194270, 22>>, <<16777200, 24>>, <<2097119, 21>>, <<4194271, 22>>,
    <<8388587, 23>>, <<8388588, 23>>, <<2097120, 21>>, <<2097121, 21>>, <<4194272, 22>>, <<2097122, 21>>,
    <<8388589, 23>>, <<4194273, 22>>, <<8388590, 23>>, <<8388591, 23>>, <<1048554, 20>>, <<4194274, 22>>,
    <<4194275, 22>>, <<4194276, 22>>, <<8388592, 23>>, <<4194277, 22>>, <<4194278, 22>>, <<8388593, 23>>,
    <<67108832, 26>>, <<67108833, 26>>, <<1048555, 20>>, <<524273, 19>>, <<4194279, 22>>, <<8388594, 23>>,
    <<4194280, 22>>, <<33554412, 25>>, <<67108834, 26>>, <<67108835, 26>>, <<67108836, 26>>, <<134217694, 27>>,
    <<134217695, 27>>, <<67108837, 26>>, <<16777201, 24>>, <<33554413, 25>>, <<524274, 19>>, <<2097123, 21>>,
    <<67108838, 26>>, <<134217696, 27>>, <<134217697, 27>>, <<67108839, 26>>, <<134217698, 27>>, <<16777202, 24>>,
    <<2097124, 21>>, <<2097125, 21>>, <<67108840, 26>>, <<67108841, 26>>, <<268435453, 28>>, <<134217699, 27>>,
    <<134217700, 27>>, <<134217701, 27>>, <<1048556, 20>>, <<16777203, 24>>, <<1048557, 20>>, <<2097126, 21>>,
    <<4194281, 22>>, <<2097127, 21>>, <<2097128, 21>>, <<8388595, 23>>, <<4194282, 22>>, <<4194283, 22>>,
    <<33554414, 25>>, <<33554415, 25>>, <<16777204, 24>>, <<16777205, 24>>, <<67108842, 26>>, <<8388596, 23>>,
    <<67108843, 26>>, <<134217702, 27>>, <<67108844, 26>>, <<67108845, 26>>, <<134217703, 27>>, <<134217704, 27>>,
    <<134217705, 27>>, <<134217706, 27>>, <<134217707, 27>>, <<268435454, 28>>, <<134217708, 27>>, <<134217709, 27>>,
    <<134217710, 27>>, <<134217711, 27>>, <<134217712, 27>>, <<67108846, 26>>, <<1073741823, 30>>
  >>
HPACK_HUFFMAN_EOS == 256

\* ---------------------------------------------------------------------
\* Bounds of the model
\* ---------------------------------------------------------------------

\* Encode is called only while the encoder-side table's _add_times is below this.
MaxAddTimes == 3
\* Encode is called only while the bytes encoded and not yet consumed by the
\* peer's Decode are fewer than this.
MaxInFlight == 3
\* Bytes an untrusted peer sends in all.
MaxReceived == 4

\* ---------------------------------------------------------------------
\* class IndexTable
\* ---------------------------------------------------------------------

\* UINT_MAX is 4294967295 in the code.  TLC's integers end at 2147483647, which
\* stands for it: it is the static table's _max_size, which no size reaches.
UINT_MAX == 2147483647

\* _header_queue.full()
QueueFull(t) == Len(t.header_queue) >= t.capacity

\* static size_t HeaderSize(const Header& h)
HeaderSize(h) == Len(h.name) + Len(h.value) + 32

empty(t) == t.size = 0
end_index(t) == t.start_index + Len(t.header_queue)

NULL == [null |-> TRUE]

\* _header_queue.bottom(n): the n-th entry counted from the newest, NULL past the end
QueueBottom(q, n) == IF n < Len(q) THEN q[Len(q) - n] ELSE NULL

\* const Header* HeaderAt(int index) const
HeaderAt(t, index) ==
  IF index < t.start_index THEN NULL
  ELSE QueueBottom(t.header_queue, index - t.start_index)

\* a FlatMap after init()
EmptyMap == [x \in {} |-> 0]
\* FlatMap::erase(key)
MapErase(m, k) == [x \in (DOMAIN m) \ {k} |-> m[x]]
\* FlatMap::operator[](key) = v
MapPut(m, k, v) == (k :> v) @@ m

\* int GetIndexOfHeader(const Header& h)
GetIndexOfHeader(t, h) ==
  IF h \notin DOMAIN t.header_index THEN 0
  ELSE t.start_index + (t.add_times - t.header_index[h]) - 1

\* int GetIndexOfName(const std::string& name)
GetIndexOfName(t, name) ==
  IF name \notin DOMAIN t.name_index THEN 0
  ELSE t.start_index + (t.add_times - t.name_index[name]) - 1

\* The name half of RemoveHeaderFromIndexes erasing the name's mapping without
\* comparing it with expected_id: evicting an older entry drops the mapping of
\* a newer entry with the same name.
RemoveNameFromIndex_Always(t, h, expected_id) ==
  [table |-> [t EXCEPT !.name_index = MapErase(@, h.name)], crash |-> "none"]

\* RemoveHeaderFromIndexes, from v = _name_index.seek(h.name) on
RemoveNameFromIndex(t, h, expected_id) ==
  IF h.name \notin DOMAIN t.name_index THEN [table |-> t, crash |-> "null_deref"]
  ELSE IF t.name_index[h.name] = expected_id
  THEN [table |-> [t EXCEPT !.name_index = MapErase(@, h.name)], crash |-> "none"]
  ELSE [table |-> t, crash |-> "none"]

\* RemoveHeaderFromIndexes that leaves both maps as they are: the mappings of an
\* evicted entry stay behind.
RemoveHeaderFromIndexes_KeepMaps(t, h, expected_id) == [table |-> t, crash |-> "none"]

\* void RemoveHeaderFromIndexes(const Header& h, uint64_t expected_id).
\* A seek that finds nothing returns NULL, and the code reads through it:
\* DCHECK(v) fails in a debug build, *v is a null dereference otherwise.
RemoveHeaderFromIndexes(t, h, expected_id) ==
  IF ~t.need_indexes THEN [table |-> t, crash |-> "none"]
  ELSE IF h \notin DOMAIN t.header_index THEN [table |-> t, crash |-> "null_deref"]
  ELSE IF t.header_index[h] = expected_id
  THEN RemoveNameFromIndex([t EXCEPT !.header_index = MapErase(@, h)], h, expected_id)
  ELSE RemoveNameFromIndex(t, h, expected_id)

\* PopHeader popping the newest entry of the queue, not the oldest
PopHeaderQueue_Newest(r, entry_size) ==
  IF r.crash # "none" THEN r
  ELSE [table |-> [r.table EXCEPT !.size = @ - entry_size,
                                  !.header_queue = SubSeq(@, 1, Len(@) - 1)],
        crash |-> "none"]

\* PopHeader, from _size -= entry_size on; r is what RemoveHeaderFromIndexes left
PopHeaderQueue(r, entry_size) ==
  IF r.crash # "none" THEN r
  ELSE [table |-> [r.table EXCEPT !.size = @ - entry_size, !.header_queue = Tail(@)],
        crash |-> "none"]

\* void PopHeader()
PopHeader(t) ==
  PopHeaderQueue(
    RemoveHeaderFromIndexes(t, Head(t.header_queue), t.add_times - Len(t.header_queue)),
    HeaderSize(Head(t.header_queue)))

RECURSIVE EvictFor(_, _), EvictNext(_, _)

\* EvictFor with the loop testing size() > max_size(), the new entry left out:
\* the eviction the table-size invariant depends on never happens.
EvictFor_SizeOnly(t, entry_size) ==
  IF ~empty(t) /\ t.size > t.max_size
  THEN EvictNext(PopHeader(t), entry_size)
  ELSE [table |-> t, crash |-> "none"]

\* The loop of AddHeader:
\*   while (!empty() && (size() + entry_size > max_size())) PopHeader();
\* EvictNext goes on from what one PopHeader left.
EvictFor(t, entry_size) ==
  IF ~empty(t) /\ t.size + entry_size > t.max_size
  THEN EvictNext(PopHeader(t), entry_size)
  ELSE [table |-> t, crash |-> "none"]

EvictNext(r, entry_size) ==
  IF r.crash # "none" THEN r ELSE EvictFor(r.table, entry_size)

\* The index update of AddHeader keeping the mapping a header already has:
\* a lookup finds the oldest copy of a header, not the newest.
IndexHeader_KeepOldest(t, h, id) ==
  IF ~t.need_indexes THEN t
  ELSE [t EXCEPT !.header_index = IF h.value # <<>> /\ h \notin DOMAIN @
                                  THEN MapPut(@, h, id) ELSE @,
                 !.name_index = MapPut(@, h.name, id)]

\* AddHeader, from const int id = _add_times++ on
IndexHeader(t, h, id) ==
  IF ~t.need_indexes THEN t
  ELSE [t EXCEPT !.header_index = IF h.value # <<>> THEN MapPut(@, h, id) ELSE @,
                 !.name_index = MapPut(@, h.name, id)]

\* AddHeader without _size += entry_size: size() stays what it was
PushHeader_NoSize(r, h, entry_size) ==
  IF r.crash # "none" THEN r
  ELSE IF entry_size > r.table.max_size THEN r
  ELSE IF QueueFull(r.table) THEN [table |-> r.table, crash |-> "CHECK"]
  ELSE [table |-> IndexHeader([r.table EXCEPT !.header_queue = Append(@, h),
                                              !.add_times = @ + 1],
                              h, r.table.add_times),
        crash |-> "none"]

\* AddHeader, from if (entry_size > max_size()) on; r is what the loop left
PushHeader(r, h, entry_size) ==
  IF r.crash # "none" THEN r
  ELSE IF entry_size > r.table.max_size THEN r
  ELSE IF QueueFull(r.table)
  THEN [table |-> [r.table EXCEPT !.size = @ + entry_size], crash |-> "CHECK"]
  ELSE [table |-> IndexHeader([r.table EXCEPT !.size = @ + entry_size,
                                              !.header_queue = Append(@, h),
                                              !.add_times = @ + 1],
                              h, r.table.add_times),
        crash |-> "none"]

\* void AddHeader(const Header& h)
AddHeader(t, h) ==
  IF h.name = <<>> THEN [table |-> t, crash |-> "CHECK"]
  ELSE PushHeader(EvictFor(t, HeaderSize(h)), h, HeaderSize(h))

\* struct IndexTableOptions
IndexTableOptions ==
  [max_size |-> 0, start_index |-> 0, static_table |-> <<>>,
   static_table_size |-> 0, need_indexes |-> FALSE]

RECURSIVE AddStatic(_, _, _), AddStaticNext(_, _, _)

\* The loop of Init adding the static headers first to last: the first entry
\* of the list becomes the oldest entry of the table.
AddStatic_Forward(t, static_table, i) ==
  IF i < 1 THEN t
  ELSE AddStaticNext(AddHeader(t, static_table[Len(static_table) - i + 1]),
                     static_table, i)

\* The loop of Init that adds the static headers in the reverse order;
\* AddStaticNext goes on from what one AddHeader left.
AddStatic(t, static_table, i) ==
  IF i < 1 THEN t
  ELSE AddStaticNext(AddHeader(t, static_table[i]), static_table, i)

AddStaticNext(r, static_table, i) ==
  IF r.crash # "none" THEN r.table ELSE AddStatic(r.table, static_table, i - 1)

\* int Init(const IndexTableOptions& options)
IndexTableInit(options) ==
  AddStatic([start_index |-> options.start_index,
             need_indexes |-> options.need_indexes,
             add_times |-> 0,
             max_size |-> IF options.static_table_size > 0 THEN UINT_MAX
                          ELSE options.max_size,
             size |-> 0,
             capacity |-> IF options.static_table_size > 0
                          THEN options.static_table_size
                          ELSE options.max_size \div (32 + 2),
             header_queue |-> <<>>,
             header_index |-> EmptyMap,
             name_index |-> EmptyMap],
            options.static_table, options.static_table_size)

\* ---------------------------------------------------------------------
\* class HuffmanTree: the nodes are _node_memory, node id n is _node_memory[n]
\* ---------------------------------------------------------------------

NULL_NODE == 0
ROOT_NODE == 1
INVALID_VALUE == 2147483647

Pow2(n) == 2 ^ n
\* bit i (0 = least significant) of x
Bit(x, i) == (x \div Pow2(i)) % 2

NewNode == [left_child |-> NULL_NODE, right_child |-> NULL_NODE, value |-> INVALID_VALUE]

\* The loop of AddLeafNode, i bits of the code still to walk from node cur.
RECURSIVE AddLeafWalk(_, _, _, _, _)
AddLeafWalk(nodes, cur, value, code, i) ==
  IF i = 0 THEN [nodes EXCEPT ![cur].value = value]
  ELSE IF Bit(code, i - 1) = 1
  THEN IF nodes[cur].right_child = NULL_NODE
       THEN AddLeafWalk(Append([nodes EXCEPT ![cur].right_child = Len(nodes) + 1], NewNode),
                        Len(nodes) + 1, value, code, i - 1)
       ELSE AddLeafWalk(nodes, nodes[cur].right_child, value, code, i - 1)
  ELSE IF nodes[cur].left_child = NULL_NODE
       THEN AddLeafWalk(Append([nodes EXCEPT ![cur].left_child = Len(nodes) + 1], NewNode),
                        Len(nodes) + 1, value, code, i - 1)
       ELSE AddLeafWalk(nodes, nodes[cur].left_child, value, code, i - 1)

\* void AddLeafNode(int32_t value, const HuffmanCode& code)
AddLeafNode(nodes, value, hc) == AddLeafWalk(nodes, ROOT_NODE, value, hc[1], hc[2])

\* The loop of CreateStaticTableOrDie over s_huffman_table: symbols lo..hi are
\* added in increasing order (the range is halved, and the left half is built
\* before the right one is entered, to keep the evaluation shallow).
RECURSIVE AddLeaves(_, _, _, _)
RECURSIVE AddLeavesFrom(_, _, _, _)
AddLeaves(nodes, table, lo, hi) ==
  IF lo = hi THEN AddLeafNode(nodes, lo, table[lo + 1])
  ELSE AddLeavesFrom(AddLeaves(nodes, table, lo, (lo + hi) \div 2),
                     table, ((lo + hi) \div 2) + 1, hi)

AddLeavesFrom(nodes, table, lo, hi) ==
  IF Len(nodes) > 0 THEN AddLeaves(nodes, table, lo, hi) ELSE nodes

\* s_huffman_tree after CreateStaticTableOrDie
s_huffman_tree == AddLeaves(<<NewNode>>, s_huffman_table, 0, HPACK_HUFFMAN_EOS)

\* const HuffmanNode* node(NodeId id) const: 0 stands for NULL
TreeNode(tree, id) == IF id = 0 \/ id > Len(tree) THEN 0 ELSE id

\* s_static_table after CreateStaticTableOrDie
s_static_table ==
  IndexTableInit([IndexTableOptions EXCEPT
                    !.max_size = UINT_MAX,
                    !.static_table = s_static_headers,
                    !.static_table_size = Len(s_static_headers),
                    !.start_index = 1,
                    !.need_indexes = TRUE])

\* ---------------------------------------------------------------------
\* class HuffmanEncoder
\* ---------------------------------------------------------------------

Min(a, b) == IF a < b THEN a ELSE b

\* HuffmanEncoder(out, table)
HuffmanEncoderNew == [out |-> <<>>, partial_byte |-> 0, remain_bit |-> 8, out_bytes |-> 0]

\* HuffmanEncoder::Encode, the body of while (bits_left) after adding_bits_len
\* bits went into _partial_byte
HuffmanEncoderAdd(e, adding_bits, adding_bits_len) ==
  IF e.remain_bit - adding_bits_len = 0
  THEN [out |-> Append(e.out, e.partial_byte + adding_bits),
        partial_byte |-> 0, remain_bit |-> 8, out_bytes |-> e.out_bytes + 1]
  ELSE [e EXCEPT !.partial_byte = @ + adding_bits * Pow2(e.remain_bit - adding_bits_len),
                 !.remain_bit = @ - adding_bits_len]

\* The while (bits_left) loop of HuffmanEncoder::Encode
RECURSIVE HuffmanEncodeBits(_, _, _)
HuffmanEncodeBits(e, code, bits_left) ==
  IF bits_left = 0 THEN e
  ELSE HuffmanEncodeBits(
         HuffmanEncoderAdd(e,
                           (code % Pow2(bits_left))
                             \div Pow2(bits_left - Min(e.remain_bit, bits_left)),
                           Min(e.remain_bit, bits_left)),
         code, bits_left - Min(e.remain_bit, bits_left))

\* void HuffmanEncoder::Encode(unsigned char byte)
HuffmanEncode(e, table, byte) ==
  HuffmanEncodeBits(e, table[byte + 1][1], table[byte + 1][2])

\* HuffmanEncoder::EndStream pushing the last byte as it is: the padding bits
\* are 0s.
HuffmanEncoderEndStream_NoPadding(e) ==
  IF e.remain_bit = 8 THEN e
  ELSE [out |-> Append(e.out, e.partial_byte),
        partial_byte |-> 0, remain_bit |-> 0, out_bytes |-> e.out_bytes + 1]

\* void HuffmanEncoder::EndStream(): pads the last byte with 1s
HuffmanEncoderEndStream(e) ==
  IF e.remain_bit = 8 THEN e
  ELSE [out |-> Append(e.out, e.partial_byte + (Pow2(e.remain_bit) - 1)),
        partial_byte |-> 0, remain_bit |-> 0, out_bytes |-> e.out_bytes + 1]

\* ---------------------------------------------------------------------
\* class HuffmanDecoder
\* ---------------------------------------------------------------------

\* HuffmanDecoder(out, tree)
HuffmanDecoderNew(tree) ==
  [out |-> <<>>, cur_node |-> TreeNode(tree, ROOT_NODE), cur_depth |-> 0, padding |-> TRUE]

\* The for (int i = 7; i >= 0; --i) loop of HuffmanDecoder::Decode; rc is 0 or -1.
\* HuffmanDecodeBit is the body of the loop once _cur_node moved to next.
RECURSIVE HuffmanDecodeBits(_, _, _, _), HuffmanDecodeBit(_, _, _, _, _)
HuffmanDecodeBits(tree, d, byte, i) ==
  IF i < 0 THEN [d |-> d, rc |-> 0]
  ELSE HuffmanDecodeBit(tree, d, byte, i,
                        TreeNode(tree, IF Bit(byte, i) = 1
                                       THEN tree[d.cur_node].right_child
                                       ELSE tree[d.cur_node].left_child))

\* The body of the loop of HuffmanDecoder::Decode without _padding &= 0 on a
\* 0 bit: _padding stays true whatever the bits after the last symbol are.
HuffmanDecodeBit_KeepPadding(tree, d, byte, i, next) ==
  IF next = 0 THEN [d |-> d, rc |-> -1]
  ELSE IF tree[next].value # INVALID_VALUE
  THEN IF tree[next].value = HPACK_HUFFMAN_EOS
       THEN [d |-> [d EXCEPT !.cur_node = next], rc |-> -1]
       ELSE HuffmanDecodeBits(tree,
                              [out |-> Append(d.out, tree[next].value),
                               cur_node |-> TreeNode(tree, ROOT_NODE),
                               cur_depth |-> 0, padding |-> TRUE],
                              byte, i - 1)
  ELSE HuffmanDecodeBits(tree,
                         [d EXCEPT !.cur_node = next, !.cur_depth = @ + 1],
                         byte, i - 1)

HuffmanDecodeBit(tree, d, byte, i, next) ==
  IF next = 0 THEN [d |-> d, rc |-> -1]
  ELSE IF tree[next].value # INVALID_VALUE
  THEN IF tree[next].value = HPACK_HUFFMAN_EOS
       THEN [d |-> [d EXCEPT !.cur_node = next], rc |-> -1]
       ELSE HuffmanDecodeBits(tree,
                              [out |-> Append(d.out, tree[next].value),
                               cur_node |-> TreeNode(tree, ROOT_NODE),
                               cur_depth |-> 0, padding |-> TRUE],
                              byte, i - 1)
  ELSE HuffmanDecodeBits(tree,
                         [d EXCEPT !.cur_node = next,
                                   !.padding = (@ /\ Bit(byte, i) = 1),
                                   !.cur_depth = @ + 1],
                         byte, i - 1)

\* int HuffmanDecoder::Decode(uint8_t byte)
HuffmanDecode(tree, d, byte) == HuffmanDecodeBits(tree, d, byte, 7)

\* int HuffmanDecoder::EndStream()
HuffmanDecoderEndStream(d) ==
  IF d.cur_depth = 0 THEN 0
  ELSE IF d.cur_depth <= 7 /\ d.padding THEN 0
  ELSE -1

\* ---------------------------------------------------------------------
\* Primitive type representations
\* ---------------------------------------------------------------------

RECURSIVE EncodeIntegerTail(_)

\* The loop of EncodeInteger without | 0x80: no byte says that another follows.
EncodeIntegerTail_NoContinuation(value) ==
  IF value >= 128
  THEN <<value % 128>> \o EncodeIntegerTail(value \div 128)
  ELSE <<value>>

\* The for (; value >= 128; ++out_bytes) loop of EncodeInteger and its last byte
EncodeIntegerTail(value) ==
  IF value >= 128
  THEN <<(value % 128) + 128>> \o EncodeIntegerTail(value \div 128)
  ELSE <<value>>

\* EncodeInteger that ors the value into the first byte without looking at the
\* prefix size: a large value spills into the bits of the representation.
EncodeInteger_NoPrefix(msb, prefix_size, value) == <<(msb + value) % 256>>

\* size_t EncodeInteger(out, uint8_t msb, uint8_t prefix_size, uint32_t value):
\* the bytes appended to out; the size returned is their number.
EncodeInteger(msb, prefix_size, value) ==
  IF value < Pow2(prefix_size) - 1
  THEN <<msb + value>>
  ELSE <<msb + (Pow2(prefix_size) - 1)>>
         \o EncodeIntegerTail(value - (Pow2(prefix_size) - 1))

\* The counter of the loop of EncodeInteger: ++out_bytes for every byte the
\* loop pushes, and return out_bytes + 1 for the last one
RECURSIVE EncodeIntegerLoopBytes(_, _)
EncodeIntegerLoopBytes(value, out_bytes) ==
  IF value >= 128 THEN EncodeIntegerLoopBytes(value \div 128, out_bytes + 1)
  ELSE out_bytes + 1

\* EncodeInteger returning 1 whatever it pushed
EncodeIntegerOutBytes_One(prefix_size, value) == 1

\* The size_t EncodeInteger returns
EncodeIntegerOutBytes(prefix_size, value) ==
  IF value < Pow2(prefix_size) - 1 THEN 1
  ELSE EncodeIntegerLoopBytes(value - (Pow2(prefix_size) - 1), 1)

\* Assume that no header would be larger than 10MB
MAX_HPACK_INTEGER == 10485760

\* static_cast<uint64_t>(cur_byte & 0x7f) << m, in 64 bits: the bits of x
\* shifted past bit 63 are lost.  The code only compares the sum with
\* MAX_HPACK_INTEGER, so a result of MAX_HPACK_INTEGER or more is given as
\* MAX_HPACK_INTEGER.  A shift by 64 or more is undefined behaviour and has no
\* value here: no call of the specifications reaches one.
ShiftLeftKept(kept, m) ==
  IF kept = 0 THEN 0
  ELSE IF m >= 24 THEN MAX_HPACK_INTEGER
  ELSE Min(kept * Pow2(m), MAX_HPACK_INTEGER)

ShiftLeft(x, m) ==
  CASE m <= 57 -> ShiftLeftKept(x, m)
    [] m > 57 /\ m < 64 -> ShiftLeftKept(x % Pow2(64 - m), m)

\* The do .. while loop of DecodeInteger and what follows it.  iter is the
\* sequence of the bytes left; DecodeIntegerByte has tmp with *iter added.
RECURSIVE DecodeIntegerLoop(_, _, _, _), DecodeIntegerByte(_, _, _, _)
DecodeIntegerLoop(iter, tmp, m, in_bytes) ==
  IF iter = <<>> THEN [rc |-> 0, value |-> 0, iter |-> iter]
  ELSE DecodeIntegerByte(iter, tmp + ShiftLeft(Head(iter) % 128, m), m, in_bytes + 1)

DecodeIntegerByte(iter, tmp, m, in_bytes) ==
  IF Head(iter) >= 128 /\ tmp < MAX_HPACK_INTEGER
  THEN DecodeIntegerLoop(Tail(iter), tmp, m + 7, in_bytes)
  ELSE IF tmp >= MAX_HPACK_INTEGER
  THEN [rc |-> -1, value |-> 0, iter |-> Tail(iter)]
  ELSE [rc |-> in_bytes, value |-> tmp, iter |-> Tail(iter)]

\* ssize_t DecodeInteger(base::IOBufBytesIterator& iter, uint8_t prefix_size, uint32_t* value)
DecodeInteger(iter, prefix_size) ==
  IF iter = <<>> THEN [rc |-> 0, value |-> 0, iter |-> iter]
  ELSE IF Head(iter) % Pow2(prefix_size) < Pow2(prefix_size) - 1
  THEN [rc |-> 1, value |-> Head(iter) % Pow2(prefix_size), iter |-> Tail(iter)]
  ELSE DecodeIntegerLoop(Tail(iter), Head(iter) % Pow2(prefix_size), 0, 1)

\* The first loop of EncodeString: bit_len += s_huffman_table[*(cur++)].bit_len,
\* HuffmanBitLenRange for the bytes lo..hi of s, one half after the other
RECURSIVE HuffmanBitLenRange(_, _, _, _)
HuffmanBitLenRange(table, s, lo, hi) ==
  IF lo > hi THEN 0
  ELSE IF lo = hi THEN table[s[lo] + 1][2]
  ELSE HuffmanBitLenRange(table, s, lo, (lo + hi) \div 2)
         + HuffmanBitLenRange(table, s, ((lo + hi) \div 2) + 1, hi)

HuffmanBitLen(table, s) == HuffmanBitLenRange(table, s, 1, Len(s))

\* The second loop of EncodeString: e.Encode(*(cur++)), HuffmanEncodeRange for
\* the bytes lo..hi of s, one half after the other; e is the encoder the bytes
\* before left, whose _remain_bit is never 0 between two calls
RECURSIVE HuffmanEncodeRange(_, _, _, _, _)
HuffmanEncodeRange(e, table, s, lo, hi) ==
  IF e.remain_bit = 0 \/ lo > hi THEN e
  ELSE IF lo = hi THEN HuffmanEncode(e, table, s[lo])
  ELSE HuffmanEncodeRange(HuffmanEncodeRange(e, table, s, lo, (lo + hi) \div 2),
                          table, s, ((lo + hi) \div 2) + 1, hi)

HuffmanEncodeAll(e, table, s) == HuffmanEncodeRange(e, table, s, 1, Len(s))

\* (bit_len >> 3) + !!(bit_len & 7)
HuffmanByteLen(bit_len) == (bit_len \div 8) + (IF bit_len % 8 # 0 THEN 1 ELSE 0)

\* EncodeString, !huffman_encoding: pre is what EncodeInteger appended
EncodeStringPlain(pre, pre_bytes, s) == [bytes |-> pre \o s, rc |-> pre_bytes + Len(s)]

\* EncodeString, huffman_encoding: e is the HuffmanEncoder after EndStream
EncodeStringHuffman(pre, pre_bytes, e) ==
  [bytes |-> pre \o e.out, rc |-> pre_bytes + e.out_bytes]

\* size_t EncodeString(out, const std::string& s, bool huffman_encoding):
\* the bytes appended to out and the size returned
EncodeString(s, huffman_encoding) ==
  IF ~huffman_encoding
  THEN EncodeStringPlain(EncodeInteger(0, 7, Len(s)), EncodeIntegerOutBytes(7, Len(s)), s)
  ELSE EncodeStringHuffman(
         EncodeInteger(128, 7, HuffmanByteLen(HuffmanBitLen(s_huffman_table, s))),
         EncodeIntegerOutBytes(7, HuffmanByteLen(HuffmanBitLen(s_huffman_table, s))),
         HuffmanEncoderEndStream(HuffmanEncodeAll(HuffmanEncoderNew, s_huffman_table, s)))

\* One iteration of the loop of DecodeString, from the -1 of a failed
\* d.Decode(*iter) on: r is what d.Decode left
HuffmanDecodeNext(tree, r, iter) ==
  IF r.rc # 0 THEN [d |-> r.d, rc |-> -1, iter |-> iter]
  ELSE [d |-> r.d, rc |-> 0, iter |-> Tail(iter)]

\* n iterations of that loop from what the iterations before left, one half
\* after the other; a failed iteration ends the loop
RECURSIVE HuffmanDecodeRange(_, _, _)
HuffmanDecodeRange(tree, r, n) ==
  IF r.rc # 0 \/ n = 0 THEN r
  ELSE IF n = 1
  THEN HuffmanDecodeNext(tree, HuffmanDecode(tree, r.d, Head(r.iter)), r.iter)
  ELSE HuffmanDecodeRange(tree, HuffmanDecodeRange(tree, r, n \div 2), n - (n \div 2))

\* The for (; iter != NULL && length; ++iter, --length) loop of DecodeString
HuffmanDecodeAll(tree, d, iter, length) ==
  HuffmanDecodeRange(tree, [d |-> d, rc |-> 0, iter |-> iter], Min(Len(iter), length))

\* DecodeString, huffman: r is what the loop left, in_bytes the value to return
DecodeStringEnd(r, in_bytes) ==
  IF r.rc # 0 THEN [rc |-> -1, out |-> r.d.out, iter |-> r.iter]
  ELSE IF HuffmanDecoderEndStream(r.d) # 0
  THEN [rc |-> -1, out |-> r.d.out, iter |-> r.iter]
  ELSE [rc |-> in_bytes, out |-> r.d.out, iter |-> r.iter]

\* DecodeString, from if (in_bytes <= 0) on; i is what DecodeInteger left
DecodeStringBody(i, huffman, old) ==
  IF i.rc <= 0 THEN [rc |-> -1, out |-> old, iter |-> i.iter]
  ELSE IF i.value > Len(i.iter) THEN [rc |-> 0, out |-> old, iter |-> i.iter]
  ELSE IF ~huffman
  THEN [rc |-> i.rc + i.value, out |-> SubSeq(i.iter, 1, i.value),
        iter |-> SubSeq(i.iter, i.value + 1, Len(i.iter))]
  ELSE DecodeStringEnd(
         HuffmanDecodeAll(s_huffman_tree, HuffmanDecoderNew(s_huffman_tree),
                          i.iter, i.value),
         i.rc + i.value)

\* ssize_t DecodeString(base::IOBufBytesIterator& iter, std::string* out).
\* out is the string as the call leaves it (old when the call does not touch it).
DecodeString(iter, old) ==
  IF iter = <<>> THEN [rc |-> 0, out |-> old, iter |-> iter]
  ELSE DecodeStringBody(DecodeInteger(iter, 7), Head(iter) >= 128, old)

\* ---------------------------------------------------------------------
\* class HPacker
\* ---------------------------------------------------------------------

\* enum HeaderIndexPolicy
HPACK_INDEX_HEADER == 0
HPACK_NOT_INDEX_HEADER == 1
HPACK_NEVER_INDEX_HEADER == 2

\* HPackOptions::HPackOptions()
HPackOptions ==
  [index_policy |-> HPACK_INDEX_HEADER, encode_name |-> FALSE, encode_value |-> FALSE]

\* HPacker::Init, the two tables it creates; start_index is s_static_table->end_index()
HPackerInitTables(max_table_size, start_index) ==
  [encode_table |-> IndexTableInit([IndexTableOptions EXCEPT
                                      !.max_size = max_table_size,
                                      !.start_index = start_index,
                                      !.need_indexes = TRUE]),
   decode_table |-> IndexTableInit([IndexTableOptions EXCEPT
                                      !.max_size = max_table_size,
                                      !.start_index = start_index,
                                      !.need_indexes = FALSE])]

\* int HPacker::Init(size_t max_table_size)
HPackerInit(max_table_size) ==
  HPackerInitTables(max_table_size, end_index(s_static_table))

\* if (index > 0) return index; return <the dynamic table's index>;
IndexOr(index, dynamic_index) == IF index > 0 THEN index ELSE dynamic_index

\* FindHeaderFromIndexTable that searches the static table only
FindHeaderFromIndexTable_StaticOnly(enc, h) == GetIndexOfHeader(s_static_table, h)

\* int HPacker::FindHeaderFromIndexTable(const Header& h) const
FindHeaderFromIndexTable(enc, h) ==
  IndexOr(GetIndexOfHeader(s_static_table, h), GetIndexOfHeader(enc, h))

\* int HPacker::FindNameFromIndexTable(const std::string& name) const
FindNameFromIndexTable(enc, name) ==
  IndexOr(GetIndexOfName(s_static_table, name), GetIndexOfName(enc, name))

\* The switch of HPacker::Encode on options.index_policy
EncodeLiteralPrefix(index_policy, name_index) ==
  CASE index_policy = HPACK_INDEX_HEADER -> EncodeInteger(64, 6, name_index)
    [] index_policy = HPACK_NOT_INDEX_HEADER -> EncodeInteger(0, 4, name_index)
    [] index_policy = HPACK_NEVER_INDEX_HEADER -> EncodeInteger(16, 4, name_index)

\* What the EncodeInteger of that switch returns
EncodeLiteralPrefixBytes(index_policy, name_index) ==
  CASE index_policy = HPACK_INDEX_HEADER -> EncodeIntegerOutBytes(6, name_index)
    [] index_policy = HPACK_NOT_INDEX_HEADER -> EncodeIntegerOutBytes(4, name_index)
    [] index_policy = HPACK_NEVER_INDEX_HEADER -> EncodeIntegerOutBytes(4, name_index)

\* The lookup made whatever the policy is
EncodeIndexLookup_Always(enc, header, options) == FindHeaderFromIndexTable(enc, header)

\* The full-match lookup that opens HPacker::Encode: 0 when the policy forbids
\* the indexed form or the lookup finds nothing.
EncodeIndexLookup(enc, header, options) ==
  IF options.index_policy # HPACK_NEVER_INDEX_HEADER
  THEN FindHeaderFromIndexTable(enc, header)
  ELSE 0

\* HPacker::Encode inserting the header under every policy but NEVER_INDEX:
\* a literal without indexing enters the encoder-side table, and not the peer's.
EncodeAddHeader_NotIndexToo(enc, header, options) ==
  IF options.index_policy # HPACK_NEVER_INDEX_HEADER
  THEN AddHeader(enc, header)
  ELSE [table |-> enc, crash |-> "none"]

\* The insertion HPacker::Encode makes before it emits a literal
EncodeAddHeader(enc, header, options) ==
  IF options.index_policy = HPACK_INDEX_HEADER
  THEN AddHeader(enc, header)
  ELSE [table |-> enc, crash |-> "none"]

\* if (name_index == 0) out_bytes += EncodeString(out, header.name, options.encode_name)
EncodeName(name_index, header, options) ==
  IF name_index = 0 THEN EncodeString(header.name, options.encode_name)
  ELSE [bytes |-> <<>>, rc |-> 0]

\* HPacker::Encode, the literal once AddHeader returned: pre, n and v are what
\* EncodeInteger and the two EncodeString appended
EncodeLiteralBytes(a, pre, pre_bytes, n, v) ==
  IF a.crash # "none"
  THEN [bytes |-> <<>>, rc |-> 0, table |-> a.table, crash |-> a.crash]
  ELSE [bytes |-> pre \o n.bytes \o v.bytes, rc |-> pre_bytes + n.rc + v.rc,
        table |-> a.table, crash |-> "none"]

\* HPacker::Encode looking the name up after AddHeader: under INDEX the name
\* index it emits is the one of the header it has just inserted.
EncodeLiteral_LookupAfter(enc, header, options, name_index) ==
  EncodeLiteralBytes(EncodeAddHeader(enc, header, options),
                     EncodeLiteralPrefix(
                       options.index_policy,
                       FindNameFromIndexTable(EncodeAddHeader(enc, header, options).table,
                                              header.name)),
                     EncodeLiteralPrefixBytes(options.index_policy, name_index),
                     EncodeName(name_index, header, options),
                     EncodeString(header.value, options.encode_value))

\* HPacker::Encode, from int name_index = FindNameFromIndexTable(header.name) on
EncodeLiteral(enc, header, options, name_index) ==
  EncodeLiteralBytes(EncodeAddHeader(enc, header, options),
                     EncodeLiteralPrefix(options.index_policy, name_index),
                     EncodeLiteralPrefixBytes(options.index_policy, name_index),
                     EncodeName(name_index, header, options),
                     EncodeString(header.value, options.encode_value))

\* HPacker::Encode, from if (index > 0) on
EncodeIndexedOr(enc, header, options, index) ==
  IF index > 0
  THEN [bytes |-> EncodeInteger(128, 7, index), rc |-> EncodeIntegerOutBytes(7, index),
        table |-> enc, crash |-> "none"]
  ELSE EncodeLiteral(enc, header, options, FindNameFromIndexTable(enc, header.name))

\* ssize_t HPacker::Encode(out, const Header& header, const HPackOptions& options):
\* the bytes appended to out, the value returned, the encoder-side table it leaves
\* and whether a CHECK or a null dereference ended the call.
Encode(enc, header, options) ==
  EncodeIndexedOr(enc, header, options, EncodeIndexLookup(enc, header, options))

\* const HPacker::Header* HPacker::HeaderAt(int index) const
HPackerHeaderAt(dec, index) ==
  IF index >= dec.start_index THEN HeaderAt(dec, index)
  ELSE HeaderAt(s_static_table, index)

\* DecodeWithKnownPrefix, from if (value_bytes <= 0) on: v is what DecodeString
\* left for the value, h has the name
DecodeValue(v, index_bytes, name_bytes, h) ==
  [rc |-> IF v.rc <= 0 THEN -1 ELSE index_bytes + name_bytes + v.rc,
   h |-> [h EXCEPT !.value = v.out], iter |-> v.iter]

\* DecodeWithKnownPrefix, index != 0: indexed_header is HeaderAt(index)
DecodeNameIndexed(indexed_header, i, h) ==
  IF indexed_header = NULL THEN [rc |-> -1, h |-> h, iter |-> i.iter]
  ELSE DecodeValue(DecodeString(i.iter, h.value), i.rc, 0,
                   [h EXCEPT !.name = indexed_header.name])

\* DecodeWithKnownPrefix, index == 0: n is what DecodeString left for the name
DecodeNameLiteral(n, i, h) ==
  IF n.rc <= 0 THEN [rc |-> -1, h |-> [h EXCEPT !.name = n.out], iter |-> n.iter]
  ELSE DecodeValue(DecodeString(n.iter, h.value), i.rc, n.rc, [h EXCEPT !.name = n.out])

\* DecodeWithKnownPrefix, from if (index_bytes <= 0) on; i is what DecodeInteger left
DecodeName(dec, i, h) ==
  IF i.rc <= 0 THEN [rc |-> -1, h |-> h, iter |-> i.iter]
  ELSE IF i.value # 0 THEN DecodeNameIndexed(HPackerHeaderAt(dec, i.value), i, h)
  ELSE DecodeNameLiteral(DecodeString(i.iter, h.name), i, h)

\* ssize_t HPacker::DecodeWithKnownPrefix(iter, Header* h, uint8_t prefix_size) const
DecodeWithKnownPrefix(dec, iter, h, prefix_size) ==
  DecodeName(dec, DecodeInteger(iter, prefix_size), h)

\* The indexed case without the test of indexed_header against NULL
DecodeIndexedCopy_NoNullCheck(dec, i, h, indexed_header) ==
  [rc |-> i.rc, h |-> indexed_header, iter |-> i.iter, table |-> dec, crash |-> "none"]

\* HPacker::Decode, case 8..15, from const Header* indexed_header = HeaderAt(index) on
DecodeIndexedCopy(dec, i, h, indexed_header) ==
  IF indexed_header = NULL
  THEN [rc |-> -1, h |-> h, iter |-> i.iter, table |-> dec, crash |-> "none"]
  ELSE [rc |-> i.rc, h |-> indexed_header, iter |-> i.iter, table |-> dec,
        crash |-> "none"]

\* HPacker::Decode, case 8..15, from if (index_bytes <= 0) on
DecodeIndexedAt(dec, i, h) ==
  IF i.rc <= 0
  THEN [rc |-> i.rc, h |-> h, iter |-> i.iter, table |-> dec, crash |-> "none"]
  ELSE DecodeIndexedCopy(dec, i, h, HPackerHeaderAt(dec, i.value))

\* HPacker::Decode, case 8..15: (1xxx) Indexed Header Field Representation
DecodeIndexed(dec, iter, h) == DecodeIndexedAt(dec, DecodeInteger(iter, 7), h)

\* HPacker::Decode, case 4..7, _decode_table->AddHeader(*h); return bytes_consumed;
DecodeIncrementalAdd(r, a) ==
  [rc |-> IF a.crash # "none" THEN 0 ELSE r.rc, h |-> r.h, iter |-> r.iter,
   table |-> a.table, crash |-> a.crash]

\* The incremental case inserting *h before it looks at bytes_consumed
DecodeIncrementalBody_AddFirst(dec, r) ==
  DecodeIncrementalAdd([r EXCEPT !.rc = IF r.rc <= 0 THEN -1 ELSE r.rc],
                       AddHeader(dec, r.h))

\* HPacker::Decode, case 4..7, from if (bytes_consumed <= 0) on
DecodeIncrementalBody(dec, r) ==
  IF r.rc <= 0
  THEN [rc |-> -1, h |-> r.h, iter |-> r.iter, table |-> dec, crash |-> "none"]
  ELSE DecodeIncrementalAdd(r, AddHeader(dec, r.h))

\* HPacker::Decode, case 4..7: (01xx) Literal Header Field with Incremental Indexing
DecodeIncremental(dec, iter, h) ==
  DecodeIncrementalBody(dec, DecodeWithKnownPrefix(dec, iter, h, 6))

\* A size update skipped as a field of one byte instead of rejected
DecodeSizeUpdate_Accept(dec, iter, h) ==
  [rc |-> 1, h |-> h, iter |-> Tail(iter), table |-> dec, crash |-> "none"]

\* HPacker::Decode, case 2..3: (001x) Dynamic Table Size Update
DecodeSizeUpdate(dec, iter, h) ==
  [rc |-> -1, h |-> h, iter |-> iter, table |-> dec, crash |-> "none"]

\* Case 1 and case 0 inserting *h as the incremental case does: a literal the
\* peer sent as not to be indexed enters the decoder-side table.
DecodeNotIndexedBody_Add(dec, r) ==
  IF r.rc <= 0
  THEN [rc |-> -1, h |-> r.h, iter |-> r.iter, table |-> dec, crash |-> "none"]
  ELSE DecodeIncrementalAdd(r, AddHeader(dec, r.h))

\* HPacker::Decode, case 1 and case 0, from if (bytes_consumed <= 0) on
DecodeNotIndexedBody(dec, r) ==
  [rc |-> IF r.rc <= 0 THEN -1 ELSE r.rc, h |-> r.h, iter |-> r.iter,
   table |-> dec, crash |-> "none"]

\* HPacker::Decode, case 1 and case 0: (0001) Literal Header Field Never Indexed,
\* (0000) Literal Header Field without Indexing
DecodeNotIndexed(dec, iter, h) ==
  DecodeNotIndexedBody(dec, DecodeWithKnownPrefix(dec, iter, h, 4))

\* ssize_t HPacker::Decode(base::IOBufBytesIterator& iter, Header* h): the value
\* returned, *h and iter as the call leaves them, the decoder-side table it
\* leaves and whether a CHECK ended the call.
Decode(dec, iter, h) ==
  IF iter = <<>> THEN [rc |-> 0, h |-> h, iter |-> iter, table |-> dec, crash |-> "none"]
  ELSE CASE Head(iter) \div 16 \in 8..15 -> DecodeIndexed(dec, iter, h)
         [] Head(iter) \div 16 \in 4..7 -> DecodeIncremental(dec, iter, h)
         [] Head(iter) \div 16 \in 2..3 -> DecodeSizeUpdate(dec, iter, h)
         [] Head(iter) \div 16 \in 0..1 -> DecodeNotIndexed(dec, iter, h)

\* Decode(IOBuf*, Header*) leaving source where the iterator stopped, whatever
\* nc is: a failed call erases the bytes it read.
DecodePopFront_Iterator(r, source) ==
  [rc |-> r.rc, h |-> r.h, table |-> r.table, crash |-> r.crash, source |-> r.iter]

\* HPacker::Decode(base::IOBuf* source, Header* h), from if (nc > 0) on
DecodePopFront(r, source) ==
  [rc |-> r.rc, h |-> r.h, table |-> r.table, crash |-> r.crash,
   source |-> IF r.crash = "none" /\ r.rc > 0
              THEN SubSeq(source, r.rc + 1, Len(source)) ELSE source]

\* ssize_t HPacker::Decode(base::IOBuf* source, Header* h): as Decode, with the
\* source buffer as the call leaves it.
DecodeIOBuf(dec, source, h) == DecodePopFront(Decode(dec, source, h), source)

\* ---------------------------------------------------------------------
\* The state: an encoding HPacker A, the bytes on their way, a decoding peer B
\* ---------------------------------------------------------------------

VARIABLES
  encode_table,  \* A's _encode_table
  decode_table,  \* B's _decode_table
  out,           \* the IOBufAppender A encodes into: bytes not yet delivered to B
  source,        \* the IOBuf B decodes from
  sent,          \* the fields encoded and not yet decoded: [header, bytes]
  received,      \* the number of bytes an untrusted peer has sent to B
  crash,         \* "none", or how a call ended the process
  last,          \* the call the last step made (NoCall when it made none): its
                 \* arguments, its results and the tables before it
  statics,       \* s_create_once and the pointers s_huffman_tree, s_static_table
  pc,            \* of every thread: where it is, and the HPackers it has made
  create_calls,  \* the number of calls of CreateStaticTableOrDie so far
  nref,          \* SharedObject::_nref
  raw_owner,     \* the thread that made the SharedObject and has not yet added
                 \* its reference, or 0
  holds,         \* of every thread: the references it holds
  deleting,      \* the threads whose fetch_sub returned 1 and that are at delete this
  deleted,       \* the number of times delete this ran
  ref_last       \* the last call on the SharedObject: thread, _nref before,
                 \* value returned, and whether the object was deleted before

\* The state of the SharedObject
refs == <<nref, raw_owner, holds, deleting, deleted, ref_last>>

vars == <<encode_table, decode_table, out, source, sent, received, crash, last,
          statics, pc, create_calls, refs>>

\* No SharedObject is in use
NoSharedObject ==
  /\ nref = 0
  /\ raw_owner = 0
  /\ holds = <<>>
  /\ deleting = {}
  /\ deleted = 0
  /\ ref_last = <<>>

\* The threads of the process
NumThreads == 3
Threads == 1..NumThreads

\* What new gives the call number call of CreateStaticTableOrDie: a pointer is
\* NULL or the object one call allocated.  The objects are written by that call
\* only, which leaves them as the definitions s_huffman_tree and s_static_table
\* say.
New(call) == [allocated_by |-> call]

\* The static variables once CreateStaticTableOnceOrDie returned
CreatedStatics ==
  [s_create_once |-> "DONE", s_huffman_tree |-> New(1), s_static_table |-> New(1)]

\* Every thread has made an HPacker
Constructed ==
  /\ statics = CreatedStatics
  /\ pc = [t \in Threads |-> [at |-> "constructed", made |-> 1]]
  /\ create_calls = 1

\* max_table_size values given to HPacker::Init
TableSizes == {34, 66, 68}

\* Headers handed to Encode:  :method: GET,  :authority: "",  a: "",  a: b,  c: b
Headers ==
  { H(<<58, 109, 101, 116, 104, 111, 100>>, <<71, 69, 84>>),
    H(<<58, 97, 117, 116, 104, 111, 114, 105, 116, 121>>, <<>>),
    H(<<97>>, <<>>),
    H(<<97>>, <<98>>),
    H(<<99>>, <<98>>) }

Policies == {HPACK_INDEX_HEADER, HPACK_NOT_INDEX_HEADER, HPACK_NEVER_INDEX_HEADER}

Options == [index_policy : Policies, encode_name : BOOLEAN, encode_value : BOOLEAN]

\* Bytes an untrusted peer sends
FuzzBytes == {0, 1, 15, 16, 32, 63, 64, 65, 97, 126, 128, 130, 190, 255}

NoHeader == H(<<>>, <<>>)

NoCall ==
  [op |-> "none", header |-> NoHeader, options |-> HPackOptions, input |-> <<>>,
   bytes |-> <<>>, rc |-> 0, h |-> NoHeader, enc_before |-> <<>>, dec_before |-> <<>>]

\* What a failed CHECK and a read through a null pointer do to the process: the
\* latter is DCHECK(v) failing in a debug build and a fault otherwise
CrashOutcomes(c) ==
  IF c = "null_deref" THEN {"DCHECK", "SIGSEGV"} ELSE {c}

Init ==
  \E p \in {HPackerInit(max_table_size) : max_table_size \in TableSizes} :
    /\ encode_table = p.encode_table
    /\ decode_table = p.decode_table
    /\ out = <<>>
    /\ source = <<>>
    /\ sent = <<>>
    /\ received = 0
    /\ crash = "none"
    /\ last = NoCall
    /\ Constructed
    /\ NoSharedObject

\* A calls Encode(&out, header, options)
EncodeStep(header, options) ==
  /\ crash = "none"
  /\ Len(out) + Len(source) < MaxInFlight
  /\ encode_table.add_times < MaxAddTimes
  /\ \E r \in {Encode(encode_table, header, options)} :
        /\ crash' \in CrashOutcomes(r.crash)
        /\ encode_table' = r.table
        /\ out' = out \o r.bytes
        /\ sent' = IF r.crash = "none"
                   THEN Append(sent, [header |-> header, bytes |-> r.bytes])
                   ELSE sent
        /\ last' = [op |-> "Encode", header |-> header, options |-> options,
                    input |-> <<>>, bytes |-> r.bytes, rc |-> r.rc, h |-> NoHeader,
                    enc_before |-> encode_table, dec_before |-> decode_table]
        /\ UNCHANGED <<decode_table, source, received,
                  statics, pc, create_calls, refs>>

\* The transport delivers the next byte to B
Deliver ==
  /\ crash = "none"
  /\ out # <<>>
  /\ source' = Append(source, Head(out))
  /\ out' = Tail(out)
  /\ last' = NoCall
  /\ UNCHANGED <<encode_table, decode_table, sent, received, crash,
                  statics, pc, create_calls, refs>>

\* The field B's call is to decode: the oldest one in flight
Pending == IF sent # <<>> THEN Head(sent)
           ELSE [header |-> NoHeader, bytes |-> <<>>]

\* B calls Decode(&source, &h) on the bytes it has
DecodeStep ==
  /\ crash = "none"
  /\ \E r \in {DecodeIOBuf(decode_table, source, NoHeader)} :
        /\ crash' \in CrashOutcomes(r.crash)
        /\ decode_table' = r.table
        /\ source' = r.source
        /\ sent' = IF r.crash = "none" /\ r.rc > 0 /\ sent # <<>> THEN Tail(sent) ELSE sent
        /\ last' = [op |-> "Decode", header |-> Pending.header,
                    options |-> HPackOptions, input |-> source,
                    bytes |-> Pending.bytes, rc |-> r.rc, h |-> r.h,
                    enc_before |-> encode_table, dec_before |-> decode_table]
        /\ UNCHANGED <<encode_table, out, received,
                  statics, pc, create_calls, refs>>

Next ==
  \/ \E header \in Headers, options \in Options : EncodeStep(header, options)
  \/ Deliver
  \/ DecodeStep

Spec == Init /\ [][Next]_vars

\* An untrusted peer: B receives any byte
Receive(b) ==
  /\ crash = "none"
  /\ received < MaxReceived
  /\ received' = received + 1
  /\ source' = Append(source, b)
  /\ last' = NoCall
  /\ UNCHANGED <<encode_table, decode_table, out, sent, crash,
                  statics, pc, create_calls, refs>>

FuzzNext ==
  \/ \E b \in FuzzBytes : Receive(b)
  \/ DecodeStep

SpecFuzz == Init /\ [][FuzzNext]_vars

\* One IndexTable with indexes, as HPacker::Init makes the encoder's, under any
\* sequence of AddHeader calls: encode_table is the table the calls are made on
AddHeaderStep(h) ==
  /\ crash = "none"
  /\ decode_table.add_times = 0
  /\ encode_table.add_times < MaxAddTimes
  /\ \E r \in {AddHeader(encode_table, h)} :
        /\ crash' \in CrashOutcomes(r.crash)
        /\ encode_table' = r.table
        /\ last' = [NoCall EXCEPT !.op = "AddHeader", !.header = h,
                                  !.enc_before = encode_table]
        /\ UNCHANGED <<decode_table, out, source, sent, received,
                  statics, pc, create_calls, refs>>

\* One IndexTable without indexes, as HPacker::Init makes the decoder's, under
\* any sequence of AddHeader calls: decode_table is the table of these calls.
\* A behaviour makes its calls on one of the two tables.
AddHeaderNoIndexesStep(h) ==
  /\ crash = "none"
  /\ encode_table.add_times = 0
  /\ decode_table.add_times < MaxAddTimes
  /\ \E r \in {AddHeader(decode_table, h)} :
        /\ crash' \in CrashOutcomes(r.crash)
        /\ decode_table' = r.table
        /\ last' = [NoCall EXCEPT !.op = "AddHeaderNoIndexes", !.header = h,
                                  !.dec_before = decode_table]
        /\ UNCHANGED <<encode_table, out, source, sent, received,
                  statics, pc, create_calls, refs>>

TableNext ==
  \/ \E h \in Headers : AddHeaderStep(h)
  \/ \E h \in Headers : AddHeaderNoIndexesStep(h)

SpecTable == Init /\ [][TableNext]_vars

\* ---------------------------------------------------------------------
\* The primitives called on their own
\* ---------------------------------------------------------------------

\* The integers 0..MaxSmallInteger and the ones next to a change of the number
\* of bytes, to MAX_HPACK_INTEGER and to 2^28
MaxSmallInteger == 300

IntegerValues ==
  (0..MaxSmallInteger)
    \cup {16383, 16384, 16511, 2097151, 2097152, 2097279,
          MAX_HPACK_INTEGER - 1, MAX_HPACK_INTEGER, MAX_HPACK_INTEGER + 1,
          Pow2(28) - 1}

PrefixSizes == 4..7

\* What follows the integer in the buffer
Rests == {<<>>, <<0>>, <<128>>}

\* n copies of byte b
Run(b, n) == [i \in 1..n |-> b]

\* The lengths of the runs of continuation bytes: 9 of them bring the shift to 63
RunLengths == {0, 1, 2, 3, 4, 8, 9}

\* Buffers DecodeInteger is called on: a first byte, a run of bytes with the
\* continuation bit, at most two more bytes
IntegerInputs ==
  {<<>>}
    \cup {<<first>> \o Run(b, n) \o tail :
            first \in {0, 5, 15, 31, 63, 127, 128, 254, 255},
            b \in {128, 255},
            n \in RunLengths,
            tail \in {<<>>, <<0>>, <<1>>, <<2>>, <<5>>, <<127>>, <<129, 1>>, <<1, 255>>}}

\* The calls of the primitives: the arguments of one call
IntegerCalls ==
  {[op |-> "IntegerArgs", prefix_size |-> prefix_size, value |-> value, rest |-> rest] :
     prefix_size \in PrefixSizes, value \in IntegerValues, rest \in Rests}

DecodeIntegerCalls ==
  {[op |-> "DecodeIntegerArgs", prefix_size |-> prefix_size, input |-> input] :
     prefix_size \in PrefixSizes, input \in IntegerInputs}

\* EncodeInteger(&out, 0, prefix_size, value) on an empty out, then rest appended
\* and DecodeInteger(iter, prefix_size, &decoded) on it
IntegerStep ==
  /\ last.op = "IntegerArgs"
  /\ \E bytes \in {EncodeInteger(0, last.prefix_size, last.value)} :
       \E r \in {DecodeInteger(bytes \o last.rest, last.prefix_size)} :
          last' = [op |-> "Integer", prefix_size |-> last.prefix_size,
                   value |-> last.value, bytes |-> bytes, rest |-> last.rest,
                   rc |-> r.rc, decoded |-> r.value, iter |-> r.iter]
  /\ UNCHANGED <<encode_table, decode_table, out, source, sent, received, crash,
              statics, pc, create_calls, refs>>

\* DecodeInteger(iter, prefix_size, &decoded) on any buffer
DecodeIntegerStep ==
  /\ last.op = "DecodeIntegerArgs"
  /\ \E r \in {DecodeInteger(last.input, last.prefix_size)} :
        last' = [op |-> "DecodeInteger", prefix_size |-> last.prefix_size,
                 input |-> last.input,
                 rc |-> r.rc, decoded |-> r.value, iter |-> r.iter]
  /\ UNCHANGED <<encode_table, decode_table, out, source, sent, received, crash,
              statics, pc, create_calls, refs>>

\* The strings of at most MaxStringLen bytes over bytes whose Huffman codes have
\* 5, 6, 7, 8, 13, 26 and 30 bits
MaxStringLen == 3

StringBytes == {97, 98, 58, 38, 0, 255, 10}

RECURSIVE StringsOfLen(_)
StringsOfLen(n) ==
  IF n = 0 THEN {<<>>}
  ELSE {Append(s, b) : s \in StringsOfLen(n - 1), b \in StringBytes}

Strings == UNION {StringsOfLen(n) : n \in 0..MaxStringLen}

\* A string whose Huffman form has 128 bytes
LongHuffmanStrings == {Run(10, 34)}

StringCalls ==
  {[op |-> "StringArgs", s |-> s, huffman_encoding |-> huffman_encoding, rest |-> rest] :
     s \in Strings, huffman_encoding \in BOOLEAN, rest \in Rests}
    \cup {[op |-> "StringArgs", s |-> s, huffman_encoding |-> TRUE, rest |-> rest] :
            s \in LongHuffmanStrings, rest \in Rests}

\* The lengths of the strings of one byte repeated: the ones next to what fits
\* the 7-bit prefix, and next to MAX_HPACK_INTEGER
RunStringLengths == {126, 127, 128, 300, MAX_HPACK_INTEGER - 1, MAX_HPACK_INTEGER}

RunStringCalls ==
  {[op |-> "RunStringArgs", byte |-> 97, length |-> length] : length \in RunStringLengths}

\* The bytes a Huffman decoder is fed: sequences of at most MaxHuffmanLen bytes
\* that end in a symbol, in padding of 1s, in 0s, or in more than 7 bits of a
\* longer code, and 32 bits of 1s, which hold EOS
MaxHuffmanLen == 3

HuffmanBytes == {0, 7, 15, 24, 31, 63, 127, 248, 254, 255}

RECURSIVE HuffmanInputsOfLen(_)
HuffmanInputsOfLen(n) ==
  IF n = 0 THEN {<<>>}
  ELSE {Append(s, b) : s \in HuffmanInputsOfLen(n - 1), b \in HuffmanBytes}

HuffmanInputs ==
  UNION {HuffmanInputsOfLen(n) : n \in 0..MaxHuffmanLen} \cup {Run(255, 4)}

HuffmanDecodeCalls == {[op |-> "HuffmanDecodeArgs", input |-> input] : input \in HuffmanInputs}

\* EncodeString(&out, s, huffman_encoding) on an empty out, then rest appended
\* and DecodeString(iter, &decoded) on it, decoded holding a byte before
StringStep ==
  /\ last.op = "StringArgs"
  /\ \E e \in {EncodeString(last.s, last.huffman_encoding)} :
       \E r \in {DecodeString(e.bytes \o last.rest, <<120>>)} :
          last' = [op |-> "String", s |-> last.s,
                   huffman_encoding |-> last.huffman_encoding,
                   bytes |-> e.bytes, written |-> e.rc, rest |-> last.rest,
                   rc |-> r.rc, decoded |-> r.out, iter |-> r.iter]
  /\ UNCHANGED <<encode_table, decode_table, out, source, sent, received, crash,
              statics, pc, create_calls, refs>>

\* HuffmanDecoder d(&decoded, s_huffman_tree), d.Decode on every byte of input
\* while it returns 0, then d.EndStream()
HuffmanDecodeStep ==
  /\ last.op = "HuffmanDecodeArgs"
  /\ \E r \in {HuffmanDecodeAll(s_huffman_tree, HuffmanDecoderNew(s_huffman_tree),
                                last.input, Len(last.input))} :
        last' = [op |-> "HuffmanDecode", input |-> last.input, rc |-> r.rc,
                 decoded |-> r.d.out, end_rc |-> HuffmanDecoderEndStream(r.d)]
  /\ UNCHANGED <<encode_table, decode_table, out, source, sent, received, crash,
              statics, pc, create_calls, refs>>

\* EncodeString(&out, s, false) and DecodeString on what it wrote, for s of
\* last.length bytes last.byte: of s and of the bytes written the state keeps
\* the lengths
RunStringStep ==
  /\ last.op = "RunStringArgs"
  /\ \E s \in {Run(last.byte, last.length)} :
       \E e \in {EncodeString(s, FALSE)} :
         \E r \in {DecodeString(e.bytes, <<120>>)} :
            last' = [op |-> "RunString", byte |-> last.byte, length |-> last.length,
                     bytes_len |-> Len(e.bytes), written |-> e.rc,
                     rc |-> r.rc, decoded_is_s |-> (r.out = s),
                     iter_len |-> Len(r.iter)]
  /\ UNCHANGED <<encode_table, decode_table, out, source, sent, received, crash,
              statics, pc, create_calls, refs>>

CodecCalls ==
  IntegerCalls \cup DecodeIntegerCalls \cup StringCalls \cup RunStringCalls
    \cup HuffmanDecodeCalls

\* const static size_t DEFAULT_HEADER_TABLE_SIZE
DEFAULT_HEADER_TABLE_SIZE == 4096

\* A process that made HPacker instances and is about to call one primitive
CodecInit ==
  \E p \in {HPackerInit(DEFAULT_HEADER_TABLE_SIZE)} :
    /\ encode_table = p.encode_table
    /\ decode_table = p.decode_table
    /\ out = <<>>
    /\ source = <<>>
    /\ sent = <<>>
    /\ received = 0
    /\ crash = "none"
    /\ last \in CodecCalls
    /\ Constructed
    /\ NoSharedObject

CodecNext ==
  \/ IntegerStep
  \/ DecodeIntegerStep
  \/ StringStep
  \/ RunStringStep
  \/ HuffmanDecodeStep

SpecCodec == CodecInit /\ [][CodecNext]_vars

\* ---------------------------------------------------------------------
\* Threads that make HPackers: the creation of the static table
\* ---------------------------------------------------------------------

\* The HPackers one thread makes
MaxInstances == 2

\* pthread_once(&s_create_once, CreateStaticTableOrDie) called with the control
\* in state once: the state it leaves, and where the caller goes.  The first
\* caller runs the routine; a caller that finds it running waits for its
\* return; a caller after that returns at once.
PthreadOnce_NoWait(once) ==
  IF once = "INIT" THEN [s_create_once |-> "IN_PROGRESS", at |-> "create"]
  ELSE [s_create_once |-> once, at |-> "constructed"]

PthreadOnce(once) ==
  IF once = "INIT" THEN [s_create_once |-> "IN_PROGRESS", at |-> "create"]
  ELSE IF once = "IN_PROGRESS" THEN [s_create_once |-> once, at |-> "wait"]
  ELSE [s_create_once |-> once, at |-> "constructed"]

\* pc of thread t moved to at; a thread that gets to "constructed" made an HPacker
Goto(t, at) ==
  [pc EXCEPT ![t] = [at |-> at,
                     made |-> IF at = "constructed" THEN @.made + 1 ELSE @.made]]

\* HPacker::HPacker(): CreateStaticTableOnceOrDie() up to the call of pthread_once
Construct(t) ==
  /\ crash = "none"
  /\ pc[t].at = "start"
  /\ pc[t].made < MaxInstances
  /\ \E r \in {PthreadOnce(statics.s_create_once)} :
        /\ statics' = [statics EXCEPT !.s_create_once = r.s_create_once]
        /\ pc' = Goto(t, r.at)
        /\ create_calls' = IF r.at = "create" THEN create_calls + 1 ELSE create_calls
  /\ UNCHANGED <<encode_table, decode_table, out, source, sent, received, crash, last,
                 refs>>

\* CreateStaticTableOrDie: s_huffman_tree = new HuffmanTree and the AddLeafNode loop
CreateTree(t) ==
  /\ crash = "none"
  /\ pc[t].at = "create"
  /\ statics' = [statics EXCEPT !.s_huffman_tree = New(create_calls)]
  /\ pc' = Goto(t, "create_table")
  /\ UNCHANGED <<encode_table, decode_table, out, source, sent, received, crash, last,
                 create_calls, refs>>

\* CreateStaticTableOrDie: s_static_table = new IndexTable and Init(options),
\* which returns 0
CreateTable(t) ==
  /\ crash = "none"
  /\ pc[t].at = "create_table"
  /\ statics' = [statics EXCEPT !.s_static_table = New(create_calls)]
  /\ pc' = Goto(t, "created")
  /\ UNCHANGED <<encode_table, decode_table, out, source, sent, received, crash, last,
                 create_calls, refs>>

\* pthread_once returns to the thread that ran the routine
OnceReturn(t) ==
  /\ crash = "none"
  /\ pc[t].at = "created"
  /\ statics' = [statics EXCEPT !.s_create_once = "DONE"]
  /\ pc' = Goto(t, "constructed")
  /\ UNCHANGED <<encode_table, decode_table, out, source, sent, received, crash, last,
                 create_calls, refs>>

\* pthread_once returns to a thread that waited for the routine
OnceWake(t) ==
  /\ crash = "none"
  /\ pc[t].at = "wait"
  /\ statics.s_create_once = "DONE"
  /\ pc' = Goto(t, "constructed")
  /\ UNCHANGED <<encode_table, decode_table, out, source, sent, received, crash, last,
                 statics, create_calls, refs>>

\* The thread calls Init, Encode or Decode of the HPacker it made: these read
\* through s_static_table and s_huffman_tree and write neither.  Then it goes on
\* to make the next one.
Use(t) ==
  /\ crash = "none"
  /\ pc[t].at = "constructed"
  /\ crash' = IF statics.s_static_table = NULL \/ statics.s_huffman_tree = NULL
              THEN "SIGSEGV" ELSE "none"
  /\ pc' = Goto(t, "start")
  /\ UNCHANGED <<encode_table, decode_table, out, source, sent, received, last,
                 statics, create_calls, refs>>

\* The process before any thread made an HPacker
OnceInit ==
  /\ encode_table = NULL
  /\ decode_table = NULL
  /\ out = <<>>
  /\ source = <<>>
  /\ sent = <<>>
  /\ received = 0
  /\ crash = "none"
  /\ last = NoCall
  /\ statics = [s_create_once |-> "INIT", s_huffman_tree |-> NULL, s_static_table |-> NULL]
  /\ pc = [t \in Threads |-> [at |-> "start", made |-> 0]]
  /\ create_calls = 0
  /\ NoSharedObject

OnceNext ==
  \E t \in Threads :
    \/ Construct(t)
    \/ CreateTree(t)
    \/ CreateTable(t)
    \/ OnceReturn(t)
    \/ OnceWake(t)
    \/ Use(t)

SpecOnce == OnceInit /\ [][OnceNext]_vars

\* ---------------------------------------------------------------------
\* One HPacker that encodes and decodes: encode_table and decode_table are the
\* _encode_table and _decode_table of the same instance, out is the sink of its
\* last Encode and source the buffer of its last Decode.
\* ---------------------------------------------------------------------

\* The members of the instance
Members == [encode_table |-> encode_table, decode_table |-> decode_table]

\* HPacker::Encode using one table for both directions: what it inserts shows
\* on the decoder side too.
EncodeOn_SharedTable(p, r) ==
  [encode_table |-> r.table,
   decode_table |-> [p.decode_table EXCEPT !.header_queue = r.table.header_queue,
                                           !.size = r.table.size,
                                           !.add_times = r.table.add_times],
   bytes |-> r.bytes, rc |-> r.rc, crash |-> r.crash]

\* HPacker::Encode reads and writes _encode_table only; r is what it did there
EncodeOn(p, r) ==
  [encode_table |-> r.table, decode_table |-> p.decode_table,
   bytes |-> r.bytes, rc |-> r.rc, crash |-> r.crash]

\* ssize_t HPacker::Encode(out, header, options) on the instance of members p
HPackerEncode(p, header, options) ==
  EncodeOn(p, Encode(p.encode_table, header, options))

\* HPacker::Decode reads and writes _decode_table only; r is what it did there
DecodeOn(p, r) ==
  [encode_table |-> p.encode_table, decode_table |-> r.table,
   rc |-> r.rc, h |-> r.h, source |-> r.source, crash |-> r.crash]

\* ssize_t HPacker::Decode(base::IOBuf* source, Header* h) on the instance of
\* members p
HPackerDecode(p, buf, h) ==
  DecodeOn(p, DecodeIOBuf(p.decode_table, buf, h))

\* max_table_size of the instance
InstanceTableSize == 68

\* What the peer of the instance sends: a: b and :authority: b with incremental
\* indexing, the entry of index 62 renamed with an empty value, :method: GET
\* indexed, a: b without indexing, and a field cut short
PeerFields ==
  { <<64, 1, 97, 1, 98>>, <<65, 1, 98>>, <<126, 0>>, <<130>>,
    <<0, 1, 97, 1, 98>>, <<64, 1, 97>> }

InstanceInit ==
  \E p \in {HPackerInit(InstanceTableSize)} :
    /\ encode_table = p.encode_table
    /\ decode_table = p.decode_table
    /\ out = <<>>
    /\ source = <<>>
    /\ sent = <<>>
    /\ received = 0
    /\ crash = "none"
    /\ last = NoCall
    /\ Constructed
    /\ NoSharedObject

\* The instance encodes a header into a sink of its caller
InstanceEncode(header, options) ==
  /\ crash = "none"
  /\ encode_table.add_times + decode_table.add_times < MaxAddTimes
  /\ \E r \in {HPackerEncode(Members, header, options)} :
        /\ crash' \in CrashOutcomes(r.crash)
        /\ encode_table' = r.encode_table
        /\ decode_table' = r.decode_table
        /\ out' = r.bytes
        /\ last' = [op |-> "Encode", header |-> header, options |-> options,
                    input |-> <<>>, bytes |-> r.bytes, rc |-> r.rc, h |-> NoHeader,
                    enc_before |-> encode_table, dec_before |-> decode_table]
        /\ UNCHANGED <<source, sent, received, statics, pc, create_calls, refs>>

\* The instance decodes a buffer its caller filled with what the peer sent
InstanceDecode(buf) ==
  /\ crash = "none"
  /\ encode_table.add_times + decode_table.add_times < MaxAddTimes
  /\ \E r \in {HPackerDecode(Members, buf, NoHeader)} :
        /\ crash' \in CrashOutcomes(r.crash)
        /\ encode_table' = r.encode_table
        /\ decode_table' = r.decode_table
        /\ source' = r.source
        /\ last' = [op |-> "Decode", header |-> NoHeader, options |-> HPackOptions,
                    input |-> buf, bytes |-> <<>>, rc |-> r.rc, h |-> r.h,
                    enc_before |-> encode_table, dec_before |-> decode_table]
        /\ UNCHANGED <<out, sent, received, statics, pc, create_calls, refs>>

InstanceNext ==
  \/ \E header \in Headers, options \in Options : InstanceEncode(header, options)
  \/ \E buf \in PeerFields : InstanceDecode(buf)

SpecInstance == InstanceInit /\ [][InstanceNext]_vars

\* ---------------------------------------------------------------------
\* class SharedObject (shared_object.h): one object, made by one thread, whose
\* references the threads add, hand to each other and remove
\* ---------------------------------------------------------------------

\* The references in existence are at most MaxRefs
MaxRefs == 4

NoRefCall == [op |-> "none", thread |-> 0, before |-> 0, ret |-> 0, after_delete |-> FALSE]

\* _nref.fetch_add(1, base::memory_order_relaxed): one atomic step
FetchAdd(n) == [nref |-> n + 1, ret |-> n]

\* _nref.fetch_sub(1, base::memory_order_release): one atomic step
FetchSub(n) == [nref |-> n - 1, ret |-> n]

\* int AddRefManually()
AddRefManually(n) == FetchAdd(n)

\* RemoveRefManually deleting when the count it saw was 2 or less: the object
\* goes while another reference is held.
HitZero_AtTwo(seen) == seen <= 2

\* if (_nref.fetch_sub(1, base::memory_order_release) == 1)
HitZero(seen) == seen = 1

\* A thread that made the object, SharedObject() : _nref(0)
RefInit ==
  /\ encode_table = NULL
  /\ decode_table = NULL
  /\ out = <<>>
  /\ source = <<>>
  /\ sent = <<>>
  /\ received = 0
  /\ crash = "none"
  /\ last = NoCall
  /\ Constructed
  /\ nref = 0
  /\ raw_owner \in Threads
  /\ holds = [t \in Threads |-> 0]
  /\ deleting = {}
  /\ deleted = 0
  /\ ref_last = NoRefCall

\* What a call on a deleted object does: the read of freed memory goes unnoticed
\* or faults
AfterDelete == IF deleted > 0 THEN {"none", "SIGSEGV"} ELSE {"none"}

\* Thread t, which holds a reference or has just made the object, calls
\* AddRefManually and keeps the new reference or hands it to thread u
AddRef(t, u) ==
  /\ crash = "none"
  /\ holds[t] > 0 \/ raw_owner = t
  /\ nref < MaxRefs
  /\ \E r \in {AddRefManually(nref)} :
        /\ nref' = r.nref
        /\ ref_last' = [op |-> "AddRefManually", thread |-> t, before |-> nref,
                        ret |-> r.ret, after_delete |-> deleted > 0]
  /\ holds' = [holds EXCEPT ![u] = @ + 1]
  /\ raw_owner' = IF raw_owner = t THEN 0 ELSE raw_owner
  /\ crash' \in AfterDelete
  /\ UNCHANGED <<encode_table, decode_table, out, source, sent, received, last,
                 statics, pc, create_calls, deleting, deleted>>

\* Thread t, which holds a reference, calls RemoveRefManually: the fetch_sub.
\* When it returned 1 the thread goes on to delete this.
RemoveRef(t) ==
  /\ crash = "none"
  /\ holds[t] > 0
  /\ t \notin deleting
  /\ \E r \in {FetchSub(nref)} :
        /\ nref' = r.nref
        /\ deleting' = IF HitZero(r.ret) THEN deleting \cup {t} ELSE deleting
        /\ ref_last' = [op |-> "RemoveRefManually", thread |-> t, before |-> nref,
                        ret |-> r.ret, after_delete |-> deleted > 0]
  /\ holds' = [holds EXCEPT ![t] = @ - 1]
  /\ crash' \in AfterDelete
  /\ UNCHANGED <<encode_table, decode_table, out, source, sent, received, last,
                 statics, pc, create_calls, raw_owner, deleted>>

\* RemoveRefManually, after the fence: delete this
Delete(t) ==
  /\ crash = "none"
  /\ t \in deleting
  /\ deleting' = deleting \ {t}
  /\ deleted' = deleted + 1
  /\ ref_last' = [op |-> "delete", thread |-> t, before |-> nref, ret |-> 0,
                  after_delete |-> deleted > 0]
  /\ crash' \in AfterDelete
  /\ UNCHANGED <<encode_table, decode_table, out, source, sent, received, last,
                 statics, pc, create_calls, nref, raw_owner, holds>>

RefNext ==
  \E t \in Threads :
    \/ \E u \in Threads : AddRef(t, u)
    \/ RemoveRef(t)
    \/ Delete(t)

SpecRef == RefInit /\ [][RefNext]_vars

\* ---------------------------------------------------------------------
\* Properties
\* ---------------------------------------------------------------------

\* seq begins with p
StartsWith(seq, p) == Len(seq) >= Len(p) /\ SubSeq(seq, 1, Len(p)) = p

\* seq ends with s
EndsWith(seq, s) ==
  Len(seq) >= Len(s) /\ SubSeq(seq, Len(seq) - Len(s) + 1, Len(seq)) = s

\* Table t holds an entry equal to h
HasEntry(t, h) == \E n \in 1..Len(t.header_queue) : t.header_queue[n] = h

\* (name, value) of h has a full match in the static table or in table enc
FullMatch(enc, h) == HasEntry(s_static_table, h) \/ HasEntry(enc, h)

\* The last step was Encode returning
Encoded == last.op = "Encode" /\ crash = "none"

\* The last step was Decode returning
Decoded == last.op = "Decode" /\ crash = "none"

\* The last step was Encode returning a literal with incremental indexing (the
\* form Encode emits exactly when it called AddHeader)
EncodedIncremental == Encoded /\ Head(last.bytes) \in 64..127

\* The last step was Decode returning > 0 on a literal with incremental indexing
\* (the case in which Decode called AddHeader)
DecodedIncremental ==
  Decoded /\ last.rc > 0 /\ Head(last.input) \in 64..127

\* C1: Encode on A and Decode on B never reach an assertion or a crash, and
\* Decode, given all the bytes of the oldest field in flight, returns a value > 0
\* and yields the header that was encoded.
C1_RoundTrip ==
  /\ crash = "none"
  /\ (last.op = "Decode" /\ last.bytes # <<>> /\ StartsWith(last.input, last.bytes))
       => (last.rc > 0 /\ last.h = last.header)

\* C2: the size of a dynamic table never exceeds its max_size, and after an
\* AddHeader of a header whose entry size exceeds max_size the table is empty
\* and does not hold the header, on the encoder side and on the decoder side.
C2_SizeWithinMax ==
  /\ encode_table.size <= encode_table.max_size
  /\ decode_table.size <= decode_table.max_size
  /\ (EncodedIncremental /\ HeaderSize(last.header) > encode_table.max_size)
       => (encode_table.size = 0 /\ encode_table.header_queue = <<>>)
  /\ (DecodedIncremental /\ HeaderSize(last.h) > decode_table.max_size)
       => (decode_table.size = 0 /\ decode_table.header_queue = <<>>)

\* An AddHeader of an oversize header emptied a table that held an entry
C2_Witness ==
  /\ EncodedIncremental
  /\ HeaderSize(last.header) > encode_table.max_size
  /\ last.enc_before.header_queue # <<>>
  /\ encode_table.header_queue = <<>>

\* C3: Decode given a proper prefix of the bytes of an encoded field returns 0.
C3_PrefixIsIncomplete ==
  (/\ Decoded
   /\ last.bytes # <<>>
   /\ Len(last.input) < Len(last.bytes)
   /\ StartsWith(last.bytes, last.input))
    => last.rc = 0

\* C4: a Decode that returns 0 or -1 leaves the decoder-side table and the
\* encoder-side table exactly as they were before the call.
C4_FailedDecodeKeepsTables ==
  (Decoded /\ last.rc <= 0)
    => (decode_table = last.dec_before /\ encode_table = last.enc_before)

\* A literal with incremental indexing was refused while the table held an entry
C4_Witness ==
  /\ Decoded
  /\ last.rc = -1
  /\ last.input # <<>>
  /\ Head(last.input) \in 64..127
  /\ decode_table.header_queue # <<>>

\* C5: Decode returns -1 for every input whose first byte is in 0x20..0x3F,
\* whatever follows and whatever the table holds.
C5_SizeUpdateRejected ==
  (Decoded /\ last.input # <<>> /\ Head(last.input) \in 32..63) => last.rc = -1

\* A size update followed by more bytes was refused while the table held an entry
C5_Witness ==
  /\ Decoded
  /\ Len(last.input) >= 2
  /\ Head(last.input) \in 32..63
  /\ last.rc = -1
  /\ decode_table.header_queue # <<>>

\* C6: the first byte Encode appends is never in 0x20..0x3F: it is 1xxxxxxx (an
\* indexed field), or 01xxxxxx under INDEX, 0000xxxx under NOT_INDEX and
\* 0001xxxx under NEVER_INDEX.
C6_FirstByte ==
  Encoded =>
    /\ last.bytes # <<>>
    /\ Head(last.bytes) \notin 32..63
    /\ \/ Head(last.bytes) \in 128..255
       \/ /\ last.options.index_policy = HPACK_INDEX_HEADER
          /\ Head(last.bytes) \in 64..127
       \/ /\ last.options.index_policy = HPACK_NOT_INDEX_HEADER
          /\ Head(last.bytes) \in 0..15
       \/ /\ last.options.index_policy = HPACK_NEVER_INDEX_HEADER
          /\ Head(last.bytes) \in 16..31

\* A name index that fills the 4-bit prefix (first byte 0000 1111) and goes on
\* in the next byte
C6_Witness ==
  /\ Encoded
  /\ last.options.index_policy = HPACK_NOT_INDEX_HEADER
  /\ Len(last.bytes) >= 2
  /\ Head(last.bytes) = 15

\* C7: Encode under NEVER_INDEX returns, emits a literal never indexed (first
\* byte 0001xxxx) that ends with the value as a string literal, and leaves the
\* encoder-side table unchanged, whatever the tables hold.
C7_NeverIndexIsLiteral ==
  (last.op = "Encode" /\ last.options.index_policy = HPACK_NEVER_INDEX_HEADER)
    => /\ crash = "none"
       /\ last.bytes # <<>>
       /\ Head(last.bytes) \in 16..31
       /\ EndsWith(last.bytes,
                   EncodeString(last.header.value, last.options.encode_value).bytes)
       /\ encode_table = last.enc_before

\* Encode under NEVER_INDEX of a header the encoder-side dynamic table holds
C7_Witness ==
  /\ Encoded
  /\ last.options.index_policy = HPACK_NEVER_INDEX_HEADER
  /\ HasEntry(last.enc_before, last.header)
  /\ last.header \in DOMAIN last.enc_before.header_index

\* Encode emitted nothing but the indexed field of an entry equal to the header
\* (every index in reach is below 127, one byte) and left its table unchanged
EmitsIndexOfMatch ==
  /\ crash = "none"
  /\ \E index \in 1..(end_index(last.enc_before) - 1) :
        /\ HPackerHeaderAt(last.enc_before, index) = last.header
        /\ last.bytes = <<128 + index>>
  /\ encode_table = last.enc_before

\* Decode of an indexed field left the decoder-side table unchanged
IndexedKeepsDecodeTable ==
  (Decoded /\ last.rc > 0 /\ Head(last.input) >= 128) => decode_table = last.dec_before

PrefixSize(b) == IF b >= 128 THEN 7 ELSE IF b >= 64 THEN 6 ELSE 4

\* The input opens with an index that resolves to no entry of the tables
RefersToNoEntry(input, dec) ==
  /\ input # <<>>
  /\ Head(input) \notin 32..63
  /\ DecodeInteger(input, PrefixSize(Head(input))).rc > 0
  /\ \/ DecodeInteger(input, PrefixSize(Head(input))).value >= end_index(dec)
     \/ /\ Head(input) >= 128
        /\ DecodeInteger(input, 7).value = 0

\* C9: Decode returns -1 for an indexed field whose index is 0 or is >=
\* end_index() of the decoder-side table, and for a literal whose non-zero
\* name index is >= end_index().
C9_MissingIndexRejected ==
  (Decoded /\ RefersToNoEntry(last.input, last.dec_before)) => last.rc = -1

\* An indexed field whose index is end_index() of a table that holds an entry
C9_Witness ==
  /\ Decoded
  /\ last.input # <<>>
  /\ Head(last.input) >= 128
  /\ last.dec_before.header_queue # <<>>
  /\ DecodeInteger(last.input, 7).rc > 0
  /\ DecodeInteger(last.input, 7).value >= end_index(last.dec_before)
  /\ last.rc = -1

\* Every mapping of the two maps of t gives an index of the table, of an entry
\* with the key's (name, value), respectively name, and its insertion id k
\* satisfies add_times - k <= queue length
IndexesValid(t) ==
  /\ \A h \in DOMAIN t.header_index :
        /\ t.add_times - t.header_index[h] <= Len(t.header_queue)
        /\ t.start_index <= GetIndexOfHeader(t, h)
        /\ GetIndexOfHeader(t, h) < end_index(t)
        /\ HeaderAt(t, GetIndexOfHeader(t, h)) = h
  /\ \A name \in DOMAIN t.name_index :
        /\ t.add_times - t.name_index[name] <= Len(t.header_queue)
        /\ t.start_index <= GetIndexOfName(t, name)
        /\ GetIndexOfName(t, name) < end_index(t)
        /\ HeaderAt(t, GetIndexOfName(t, name)).name = name

\* The static table, which no call changes after CreateStaticTableOrDie
StaticIndexesValid == IndexesValid(s_static_table)

\* C10: in every reachable state the indexes GetIndexOfHeader and
\* GetIndexOfName return for the encoder-side table and for the static table
\* lie in start_index()..end_index()-1 and HeaderAt of them is an entry with
\* the searched (name, value), respectively name.
C10_LookupIndexesValid ==
  IndexesValid(encode_table) /\ StaticIndexesValid

\* Entries were evicted and both maps still hold mappings
C10_Witness ==
  /\ crash = "none"
  /\ encode_table.add_times > Len(encode_table.header_queue)
  /\ DOMAIN encode_table.header_index # {}
  /\ DOMAIN encode_table.name_index # {}

\* The last step was AddHeader returning
Added == last.op = "AddHeader" /\ crash = "none"

\* The positions in the queue of t, oldest first, of the entries equal to h
HeaderPositions(t, h) == {n \in 1..Len(t.header_queue) : t.header_queue[n] = h}

\* The positions in the queue of t of the entries named name
NamePositions(t, name) == {n \in 1..Len(t.header_queue) : t.header_queue[n].name = name}

\* The index of the newest of the entries at positions ns of t, 0 when there is none
NewestIndex(t, ns) ==
  IF ns = {} THEN 0
  ELSE t.start_index + Len(t.header_queue)
         - (CHOOSE n \in ns : \A m \in ns : m <= n)

\* The headers a lookup in t is asked for: the ones of the calls and its entries
LookupHeaders(t) == Headers \cup {t.header_queue[n] : n \in 1..Len(t.header_queue)}

\* GetIndexOfHeader(h) of t is the index of the newest entry equal to h, 0 if none
HeaderLookupFindsNewest(t, h) ==
  GetIndexOfHeader(t, h) = NewestIndex(t, HeaderPositions(t, h))

StaticHeaderLookup ==
  \A h \in LookupHeaders(s_static_table) : HeaderLookupFindsNewest(s_static_table, h)

StaticNonEmptyHeaderLookup ==
  \A h \in LookupHeaders(s_static_table) :
     IF h.value # <<>> THEN HeaderLookupFindsNewest(s_static_table, h)
     ELSE GetIndexOfHeader(s_static_table, h) = 0

C12_NameLookupFindsNewest ==
  crash = "none" =>
    \A h \in LookupHeaders(encode_table) :
       GetIndexOfName(encode_table, h.name)
         = NewestIndex(encode_table, NamePositions(encode_table, h.name))

\* An AddHeader evicted an entry whose name a newer entry still in the table has
C12_Witness ==
  /\ Added
  /\ Len(last.enc_before.header_queue) >= Len(encode_table.header_queue)
  /\ last.enc_before.header_queue # <<>>
  /\ NamePositions(encode_table, Head(last.enc_before.header_queue).name) # {}

\* C13: for every prefix size N in 4..7 and every value v in [0, 2^28),
\* DecodeInteger on the bytes EncodeInteger(v, N) emitted returns v and the
\* number of bytes EncodeInteger emitted.
C13_IntegerRoundTrip ==
  last.op = "Integer"
    => (last.rc = Len(last.bytes) /\ last.decoded = last.value /\ last.iter = last.rest)

\* C13 as the code has it: the same for every value v in [0, MAX_HPACK_INTEGER),
\* that is below 10 MiB; for v in [MAX_HPACK_INTEGER, 2^28) DecodeInteger
\* returns -1.
C13_IntegerRoundTripBelowMax ==
  last.op = "Integer"
    => IF last.value < MAX_HPACK_INTEGER
       THEN last.rc = Len(last.bytes) /\ last.decoded = last.value /\ last.iter = last.rest
       ELSE last.rc = -1

\* A value that takes the prefix and three more bytes came back, with bytes
\* after it in the buffer
C13_Witness ==
  /\ last.op = "Integer"
  /\ last.value >= 16384 + 127
  /\ last.value < MAX_HPACK_INTEGER
  /\ Len(last.bytes) = 4
  /\ last.rest # <<>>
  /\ last.rc = 4
  /\ last.decoded = last.value

\* The value of the integer of RFC 7541 section 5.1 after one more byte, acc
\* being the value before it: acc + (byte mod 128) * 2^m.  Every value of
\* MAX_HPACK_INTEGER or more is given as MAX_HPACK_INTEGER.
Accumulate(acc, byte, m) ==
  IF byte % 128 = 0 THEN acc
  ELSE IF m >= 24 THEN MAX_HPACK_INTEGER
  ELSE Min(acc + (byte % 128) * Pow2(m), MAX_HPACK_INTEGER)

\* The outcome C14 gives for the bytes from position n of input on, acc being
\* the value accumulated from the bytes before and m the shift of byte n
RECURSIVE IntegerOutcome(_, _, _, _)
IntegerOutcome(input, n, acc, m) ==
  IF n > Len(input) THEN [rc |-> 0, value |-> 0]
  ELSE IF Accumulate(acc, input[n], m) >= MAX_HPACK_INTEGER THEN [rc |-> -1, value |-> 0]
  ELSE IF input[n] >= 128 THEN IntegerOutcome(input, n + 1, Accumulate(acc, input[n], m), m + 7)
  ELSE [rc |-> n, value |-> Accumulate(acc, input[n], m)]

\* C14: for every byte sequence DecodeInteger has exactly one of three
\* outcomes: it returns 0 when the input is exhausted before a byte without the
\* continuation bit is read; it returns -1 as soon as the accumulated value
\* reaches or exceeds 10 MiB; or it returns the positive number of bytes read
\* with a value below 10 MiB.
C14_IntegerOutcomes ==
  last.op = "DecodeInteger" =>
    IF last.input = <<>> THEN last.rc = 0
    ELSE IF Head(last.input) % Pow2(last.prefix_size) < Pow2(last.prefix_size) - 1
    THEN last.rc = 1 /\ last.decoded = Head(last.input) % Pow2(last.prefix_size)
    ELSE \E o \in {IntegerOutcome(last.input, 2, Pow2(last.prefix_size) - 1, 0)} :
            /\ last.rc = o.rc
            /\ last.rc > 0 => last.decoded = o.value

\* C14, the part that does not depend on what the accumulated value is:
\* DecodeInteger returns 0, -1 or a positive number of bytes of the input, and
\* the value it outputs with a positive return is below 10 MiB.
C14_OutputBelowMax ==
  last.op = "DecodeInteger" =>
    /\ last.rc \in {-1} \cup (0..Len(last.input))
    /\ last.rc > 0 => (last.decoded < MAX_HPACK_INTEGER
                        /\ last.iter = SubSeq(last.input, last.rc + 1, Len(last.input)))

\* The outcomes of C14 on the inputs of at most 10 bytes, where no shift passes
\* bit 63 of the 64-bit accumulator
IntegerOutcomesUpToTenBytes ==
  (last.op = "DecodeInteger" /\ Len(last.input) <= 10) => C14_IntegerOutcomes

\* C15: for every octet string s, the empty one included, and both values of
\* the Huffman flag, DecodeString on the bytes EncodeString(s, flag) wrote
\* outputs s and returns the number of bytes EncodeString wrote.
C15_StringRoundTrip ==
  /\ last.op = "String"
       => /\ last.written = Len(last.bytes)
          /\ last.rc = last.written
          /\ last.decoded = last.s
          /\ last.iter = last.rest
  /\ last.op = "RunString"
       => /\ last.written = last.bytes_len
          /\ last.rc = last.written
          /\ last.decoded_is_s
          /\ last.iter_len = 0

\* C15 as the code has it: the same for every octet string whose encoded form
\* (s itself, or its Huffman code) is shorter than MAX_HPACK_INTEGER bytes, that
\* is 10 MiB; for a longer one EncodeString writes as the claim tells and
\* DecodeString returns -1.
C15_StringRoundTripBelowMax ==
  /\ last.op = "String" => C15_StringRoundTrip
  /\ last.op = "RunString"
       => /\ last.written = last.bytes_len
          /\ IF last.length < MAX_HPACK_INTEGER
             THEN last.rc = last.written /\ last.decoded_is_s /\ last.iter_len = 0
             ELSE last.rc = -1

\* A string with bytes of long Huffman codes came back from its Huffman form,
\* which ends in padding
C15_Witness ==
  /\ last.op = "String"
  /\ last.huffman_encoding
  /\ Len(last.s) = 3
  /\ 10 \in {last.s[n] : n \in 1..Len(last.s)}
  /\ HuffmanBitLen(s_huffman_table, last.s) % 8 # 0
  /\ last.rc = Len(last.bytes)
  /\ last.decoded = last.s

\* The bits of the bytes of input, the most significant bit of a byte first
BitsOf(input) ==
  [n \in 1..(8 * Len(input)) |-> Bit(input[((n - 1) \div 8) + 1], 7 - ((n - 1) % 8))]

\* The number the first k of bits are
RECURSIVE BitsValue(_, _)
BitsValue(bits, k) == IF k = 0 THEN 0 ELSE 2 * BitsValue(bits, k - 1) + bits[k]

\* The (code, length) pairs of the 256 symbols of RFC 7541 Appendix B
SymbolCodes == {s_huffman_table[sym + 1] : sym \in 0..255}

\* The lengths k such that the first k of bits are the code of a symbol
CodeLengths(bits) ==
  {k \in 1..Min(30, Len(bits)) : <<BitsValue(bits, k), k>> \in SymbolCodes}

\* The bits left after the last complete symbol of bits
RECURSIVE TrailingBits(_)
TrailingBits(bits) ==
  IF CodeLengths(bits) = {} THEN bits
  ELSE TrailingBits(SubSeq(bits, (CHOOSE k \in CodeLengths(bits) : TRUE) + 1, Len(bits)))

\* C16: HuffmanDecoder::EndStream returns -1 whenever the bits consumed since
\* the last completed symbol number more than 7, or number 1 to 7 and are not
\* all 1; it returns 0 only when there are no such bits or they are at most 7
\* bits, all 1.
C16_EndStreamPadding ==
  (last.op = "HuffmanDecode" /\ last.rc = 0) =>
    \E t \in {TrailingBits(BitsOf(last.input))} :
       last.end_rc = IF t = <<>> \/ (Len(t) <= 7 /\ \A n \in 1..Len(t) : t[n] = 1)
                     THEN 0 ELSE -1

\* A symbol was completed and EndStream rejected the bits after it, which are
\* at most 7 and hold a 0
C16_Witness ==
  /\ last.op = "HuffmanDecode"
  /\ last.rc = 0
  /\ last.decoded # <<>>
  /\ last.end_rc = -1
  /\ \E t \in {TrailingBits(BitsOf(last.input))} :
        Len(t) \in 1..7 /\ \E n \in 1..Len(t) : t[n] = 0

\* C17: Decode(IOBuf* source, Header* h) removes exactly the returned number of
\* bytes from the front of source when that number is positive, and leaves
\* source as it was when it returns 0 or -1.
C17_SourceErasedOnSuccess ==
  Decoded =>
    IF last.rc > 0
    THEN /\ last.rc <= Len(last.input)
         /\ source = SubSeq(last.input, last.rc + 1, Len(last.input))
    ELSE /\ last.rc \in {0, -1}
         /\ source = last.input

\* A Decode returned a positive number and left the bytes after the field, and
\* the next Decode, on those bytes, failed and left them
C17_Witness ==
  /\ Decoded
  /\ last.rc = -1
  /\ Len(last.input) >= 2
  /\ source = last.input
  /\ received > Len(source)

\* The representation of the field a Decode was called on: first_byte >> 4
Representation == Head(last.input) \div 16

\* Table new is table old after one AddHeader of h: when the entry of h fits
\* max_size, h is at index 62 and every entry of old still in new has its index
\* greater by 1; when it does not, new is empty
AddedAtFront(old, new, h) ==
  IF HeaderSize(h) <= old.max_size
  THEN /\ new.add_times = old.add_times + 1
       /\ HeaderAt(new, 62) = h
       /\ Len(new.header_queue) <= Len(old.header_queue) + 1
       /\ \A index \in 63..(end_index(new) - 1) :
             HeaderAt(new, index) = HeaderAt(old, index - 1)
  ELSE new.header_queue = <<>> /\ new.add_times = old.add_times

\* C20: a Decode that returns a positive number changes the decoder-side table
\* only for a literal with incremental indexing (01xx), and then by exactly one
\* AddHeader of the decoded header, which, when its entry fits max_size, is at
\* index 62 afterwards with the index of every older entry still in the table
\* greater by 1; for the indexed form (1xxx) and the literals without indexing
\* (0000) and never indexed (0001) the table is as it was.
C20_OnlyIncrementalChangesTable ==
  (Decoded /\ last.rc > 0) =>
    IF Representation \in 4..7
    THEN /\ decode_table = AddHeader(last.dec_before, last.h).table
         /\ AddedAtFront(last.dec_before, decode_table, last.h)
    ELSE /\ Representation \in {0, 1} \cup (8..15)
         /\ decode_table = last.dec_before

\* A Decode of a literal with incremental indexing put its header in front of
\* an older entry that stayed in the table
C20_Witness ==
  /\ Decoded
  /\ last.rc > 0
  /\ Representation \in 4..7
  /\ Len(decode_table.header_queue) >= 2
  /\ HeaderAt(decode_table, 62) = last.h
  /\ HeaderAt(decode_table, 63) = HeaderAt(last.dec_before, 62)

\* C18: under any interleaving of threads that construct HPacker instances,
\* CreateStaticTableOrDie executes exactly once, every HPacker constructor
\* returns only after that initialisation has completed, and no later HPacker
\* operation modifies the static table or the Huffman tree.
C18_StaticsCreatedOnce ==
  /\ create_calls <= 1
  /\ crash = "none"
  /\ \A t \in Threads :
        (pc[t].at = "constructed" \/ pc[t].made > 0)
          => (create_calls = 1 /\ statics = CreatedStatics)

\* A thread waits in pthread_once while another is in CreateStaticTableOrDie,
\* which made the Huffman tree and not yet the static table
C18_Witness ==
  /\ \E t \in Threads : pc[t].at = "wait"
  /\ \E t \in Threads : pc[t].at = "create_table"
  /\ statics.s_huffman_tree # NULL
  /\ statics.s_static_table = NULL

\* C19: after the static table is initialised from the list of its 61 entries,
\* HeaderAt(i) returns the i-th entry of the list for every i in 1..61 and
\* nothing for i = 0 and for i > 61, and GetIndexOfName(name) returns the
\* smallest position of the list whose entry has that name.
C19_StaticTableInListOrder ==
  statics.s_static_table # NULL =>
    /\ Len(s_static_headers) = 61
    /\ \A i \in 1..61 : HeaderAt(s_static_table, i) = s_static_headers[i]
    /\ \A i \in {0} \cup (62..70) : HeaderAt(s_static_table, i) = NULL
    /\ \A i \in 1..61 :
          \E n \in {GetIndexOfName(s_static_table, s_static_headers[i].name)} :
             /\ n \in 1..i
             /\ s_static_headers[n].name = s_static_headers[i].name
             /\ \A m \in 1..(n - 1) : s_static_headers[m].name # s_static_headers[i].name

\* The static table was created, and its list has names at more than one position
C19_Witness ==
  /\ statics.s_static_table # NULL
  /\ statics.s_create_once = "IN_PROGRESS"
  /\ \E i, j \in 1..61 : i < j /\ s_static_headers[i].name = s_static_headers[j].name

\* The last step was AddHeader returning, on the table with indexes (before,
\* after: last.enc_before, encode_table) or on the one without
AddedTo(before, after) ==
  /\ crash = "none"
  /\ \/ last.op = "AddHeader" /\ before = last.enc_before /\ after = encode_table
     \/ last.op = "AddHeaderNoIndexes" /\ before = last.dec_before /\ after = decode_table

\* The sum of len(name) + len(value) + 32 over the entries of q
RECURSIVE SumOfSizes(_)
SumOfSizes(q) == IF q = <<>> THEN 0 ELSE HeaderSize(Head(q)) + SumOfSizes(Tail(q))

\* q without its k oldest entries
Without(q, k) == SubSeq(q, k + 1, Len(q))

\* after is before with its k oldest entries evicted and h pushed, and k is the
\* least number of evictions after which h fits max_size
EvictedOldest(before, after, h, k) ==
  /\ after.header_queue = Append(Without(before.header_queue, k), h)
  /\ SumOfSizes(Without(before.header_queue, k)) + HeaderSize(h) <= before.max_size
  /\ k > 0 => SumOfSizes(Without(before.header_queue, k - 1)) + HeaderSize(h)
                > before.max_size

\* What C21 says of one AddHeader(h) that took the table from before to after
FifoMinimal(before, after, h) ==
  IF HeaderSize(h) > before.max_size THEN after.header_queue = <<>>
  ELSE \E k \in 0..Len(before.header_queue) : EvictedOldest(before, after, h, k)

\* C21: after any sequence of AddHeader calls the entries of a dynamic table
\* are a contiguous run of the most recently inserted headers in insertion
\* order, the newest at start_index: one AddHeader evicts the oldest entries one
\* at a time only while size + new_entry_size > max_size, stops at the first
\* point where the new entry fits or the table is empty, and pushes the new
\* entry as the newest.
C21_EvictionFifoMinimal ==
  \A t \in {[before |-> last.enc_before, after |-> encode_table],
            [before |-> last.dec_before, after |-> decode_table]} :
     AddedTo(t.before, t.after) =>
       /\ FifoMinimal(t.before, t.after, last.header)
       /\ t.after.header_queue # <<>> =>
            HeaderAt(t.after, t.after.start_index)
              = t.after.header_queue[Len(t.after.header_queue)]

\* An AddHeader evicted the oldest entry and kept a newer one
C21_Witness ==
  /\ AddedTo(last.dec_before, decode_table)
  /\ Len(last.dec_before.header_queue) = 2
  /\ Len(decode_table.header_queue) = 2
  /\ decode_table.header_queue[1] = last.dec_before.header_queue[2]

\* The AddHeader that took a dynamic table from before to after evicted the
\* entry that had index index in before
EvictsIndex(before, after, index) ==
  /\ index >= before.start_index
  /\ index < end_index(before)
  /\ after.add_times = before.add_times + 1
  /\ index + 1 >= end_index(after)

\* C22: a name index is resolved against the table as it was before the
\* field's own insertion, on both sides: when Encode under INDEX emits a
\* literal whose name index refers to a dynamic entry that the insertion of this
\* header evicts, the name index it emits is the index the entry had before the
\* insertion, and the peer's Decode resolves it to the name of that entry before
\* it inserts and evicts, so that the decoded name is the encoded one.
C22_NameIndexBeforeInsertion ==
  /\ EncodedIncremental =>
       \A n \in {FindNameFromIndexTable(last.enc_before, last.header.name)} :
          /\ StartsWith(last.bytes, EncodeInteger(64, 6, n))
          /\ EvictsIndex(last.enc_before, encode_table, n)
               => HeaderAt(last.enc_before, n).name = last.header.name
  /\ DecodedIncremental =>
       \A n \in {DecodeInteger(last.input, 6).value} :
          /\ n > 0 => last.h.name = HPackerHeaderAt(last.dec_before, n).name
          /\ EvictsIndex(last.dec_before, decode_table, n)
               => /\ last.h.name = last.header.name
                  /\ HeaderAt(decode_table, decode_table.start_index) = last.h

\* B decoded a literal whose name index, 63, refers to the entry that the
\* insertion of the decoded header evicted, while a newer entry stayed
C22_Witness ==
  /\ DecodedIncremental
  /\ DecodeInteger(last.input, 6).value = 63
  /\ EvictsIndex(last.dec_before, decode_table, 63)
  /\ Len(decode_table.header_queue) = 2
  /\ last.h = last.header

\* B has decoded every field A encoded
AllDecoded == crash = "none" /\ out = <<>> /\ source = <<>> /\ sent = <<>>

\* C23: for two HPacker instances initialised with the same max_table_size,
\* after A has encoded any sequence of headers, under any policies and Huffman
\* flags, and B has decoded all of the produced fields in order, the entry
\* sequence and the size of A's encoder-side dynamic table equal those of B's
\* decoder-side dynamic table.
C23_TablesInLockStep ==
  AllDecoded =>
    /\ encode_table.max_size = decode_table.max_size
    /\ encode_table.header_queue = decode_table.header_queue
    /\ encode_table.size = decode_table.size
    /\ end_index(encode_table) = end_index(decode_table)

\* B decoded the last of three fields and both tables hold two entries, an
\* older one having been evicted
C23_Witness ==
  /\ AllDecoded
  /\ Decoded
  /\ encode_table.add_times = 3
  /\ Len(encode_table.header_queue) = 2
  /\ Len(decode_table.header_queue) = 2

\* The last step was a call of AddHeader, returning or not, on the table that
\* was before
AddHeaderCalledOn(before) ==
  \/ last.op = "AddHeader" /\ before = last.enc_before
  \/ last.op = "AddHeaderNoIndexes" /\ before = last.dec_before

\* AddHeader(h) on the table before reaches _header_queue.push with fewer
\* queued entries than the capacity
PushBelowCapacity(before, h) ==
  \A r \in {EvictFor(before, HeaderSize(h))} :
     (r.crash = "none" /\ HeaderSize(h) <= before.max_size) =>
        Len(r.table.header_queue) < r.table.capacity

\* C24: the pre-sized ring buffer is never full when AddHeader pushes: for
\* every max_size and every sequence of AddHeader calls with non-empty names,
\* values possibly empty, the number of queued entries is strictly below the
\* capacity floor(max_size / 34) at the moment of the push, and
\* CHECK(!_header_queue.full()) never fails.
C24_QueueNeverFullAtPush ==
  \A before \in {last.enc_before, last.dec_before} :
     AddHeaderCalledOn(before) =>
        /\ PushBelowCapacity(before, last.header)
        /\ crash # "CHECK"

\* C25: whenever an entry is evicted from a table with lookup indexes enabled,
\* both reverse maps hold a mapping for that entry's key: in
\* RemoveHeaderFromIndexes the seek of the (name, value) map and the seek of the
\* name map both return non-null, so *v is never a null dereference, for every
\* evicted header including one whose value is empty.
C25_EvictedEntryIsMapped ==
  last.op = "AddHeader" =>
     /\ EvictFor(last.enc_before, HeaderSize(last.header)).crash # "null_deref"
     /\ crash \notin {"DCHECK", "SIGSEGV"}

\* size() is the sum of the entry sizes of the queue of t
SizeIsSum(t) ==
  /\ t.size = SumOfSizes(t.header_queue)
  /\ t.size = 0 <=> empty(t)
  /\ ~empty(t) => HeaderSize(Head(t.header_queue)) <= t.size

\* C26: in every reachable state of an index table size() equals the sum over
\* the queued entries of len(name) + len(value) + 32; size() is 0 exactly when
\* the queue is empty, and the DCHECK_LE(entry_size, size()) of PopHeader holds
\* of the entry PopHeader would evict.
C26_SizeIsSumOfEntries ==
  crash = "none" => SizeIsSum(encode_table) /\ SizeIsSum(decode_table)

\* An AddHeader on a table of two entries filling max_size evicted one of them
\* and left the table full again
C26_Witness ==
  /\ AddedTo(last.enc_before, encode_table)
  /\ Len(last.enc_before.header_queue) = 2
  /\ last.enc_before.size = last.enc_before.max_size
  /\ Len(encode_table.header_queue) = 2
  /\ encode_table.size = encode_table.max_size

\* No Encode call changes the decoder-side table and no Decode call the
\* encoder-side table of the instance
TablesIndependent ==
  /\ last.op = "Encode" => decode_table = last.dec_before
  /\ last.op = "Decode" => encode_table = last.enc_before

RECURSIVE HeldBy(_)
HeldBy(n) == IF n = 0 THEN 0 ELSE holds[n] + HeldBy(n - 1)

\* Every reference has been removed and no thread is at delete this
AllReleased == raw_owner = 0 /\ HeldBy(NumThreads) = 0 /\ deleting = {}

\* C29: under any interleaving of AddRefManually and RemoveRefManually calls by
\* several threads in which no thread releases more references than it holds,
\* the SharedObject is deleted exactly once, at the RemoveRefManually that takes
\* the count from 1 to 0; no AddRefManually or RemoveRefManually by a reference
\* holder executes after the deletion; AddRefManually returns the count seen
\* before the increment.
C29_DeletedOnceAtZero ==
  /\ deleted <= 1
  /\ AllReleased <=> deleted = 1
  /\ deleted = 0 => nref = HeldBy(NumThreads)
  /\ \A t \in deleting : nref = 0 /\ deleted = 0 /\ deleting = {t}
  /\ ref_last.op = "delete" => ref_last.before = 0
  /\ (ref_last.op = "RemoveRefManually" /\ ref_last.thread \in deleting)
       <=> (ref_last.op = "RemoveRefManually" /\ ref_last.before = 1)
  /\ ~ref_last.after_delete
  /\ ref_last.op = "AddRefManually"
       => ref_last.ret = ref_last.before /\ nref = ref_last.before + 1
  /\ crash = "none"

\* Thread 3 deleted the object after the last reference went
C29_Witness ==
  /\ ref_last.op = "delete"
  /\ ref_last.thread = 3
  /\ deleted = 1
  /\ nref = 0
====
